---- MODULE Spec2Model ----
(***************************************************************************)
(* Model of the Mimir real-time conversation pipeline:                     *)
(*   - WhisperEngine / WhisperStreamingASR: the voice-activity segmenter   *)
(*     (moshi/moshi/integrations/whisper/engine.py)                        *)
(*   - OllamaClient / OllamaLMAdapter: conversation history and the        *)
(*     fragment stream (moshi/moshi/integrations/ollama/{client,adapter})  *)
(*   - MimirOrchestrator: one conversational turn                          *)
(*     (moshi/moshi/mimir_orchestrator.py)                                 *)
(*                                                                         *)
(* Units.  Durations and wall-clock time are counted in tenths of a        *)
(* second (chunk_length 30 s = 300, silence_duration 1.5 s = 15,           *)
(* min_speech_duration 0.3 s = 3).  RMS energy is counted in hundredths    *)
(* (vad_threshold 0.02 = 2).  A text is a sequence of one-character        *)
(* strings; " " is the only whitespace character of the alphabet.          *)
(*                                                                         *)
(* Scheduling.  The orchestrator's operations are asyncio coroutines of    *)
(* one event loop: a coroutine runs without interruption between two       *)
(* suspension points (the executor call of the transcription, every read   *)
(* of the generation stream, the executor call of the synthesis).  Each    *)
(* action below is the code between two suspension points.                 *)
(***************************************************************************)
EXTENDS Integers, Sequences, FiniteSets, TLC

VARIABLES
  config,            \* WhisperEngine.config (WhisperConfig)
  audio_buffer,      \* WhisperEngine._audio_buffer: durations of the appended chunks
  silence_start,     \* WhisperEngine._silence_start (NoTime is None)
  is_speech_active,  \* WhisperEngine._is_speech_active
  running,           \* WhisperStreamingASR._running
  now,               \* time.time()
  last_trigger,      \* value returned by the last WhisperStreamingASR.process_audio
  initialized,       \* MimirOrchestrator._initialized
  processing,        \* MimirOrchestrator._processing
  history,           \* OllamaClient._conversation_history
  pc,                \* per call: the suspension point the coroutine is parked at
  kind,              \* per call: which public operation was called
  user_text,         \* per call: user_text of process_conversation_turn / generate_response
  frags,             \* per call: the fragments the generation stream has yielded so far
  chat_response,     \* per call: response_text of OllamaClient.chat
  response_text,     \* per call: response_text of MimirOrchestrator.generate_response
  outcome,           \* per call: how the call ended
  called,            \* per call: the engines the call has invoked
  model_loaded,      \* WhisperEngine.model is not None
  audio_to_transcribe, \* per call: audio_to_transcribe of transcribe_buffer
  handed,            \* how many leading chunks of the buffer are in a copy already handed to the engine
  buffer_lock,       \* the call holding WhisperEngine._buffer_lock, or NoHolder
  transcription_count, \* WhisperEngine._transcription_count
  side,              \* which adapter's resample_audio is called
  audio,             \* resample_audio: the audio argument
  from_sr,           \* resample_audio: the from_sr argument
  to_sr,             \* resample_audio: the to_sr argument
  resampled,         \* resample_audio: what the call produced
  opus_writer,       \* MimirClient._opus_writer: encoded bytes not yet read
  opus_reader,       \* MimirClient._opus_reader: the bytes appended to the decoder
  done,              \* MimirClient._done
  inbox,             \* server connection: the messages received and not yet handled
  srv_seen,          \* handle_chat: kind and audio_data of the last binary message
  srv_pc,            \* server connection: where its handler is parked
  ws_out,            \* server connection: types sent while handling the current message
  srv_text,          \* _handle_text_input: response_text
  srv_prompt,        \* _handle_text_input: the payload OllamaClient.generate posts (NoPayload when no generation runs)
  srv_asked,         \* the user_text of every _handle_text_input call so far, with the connection it came from
  handler,           \* server connection: where handle_chat stands ("none" before the request)
  active_connections, \* MimirServer.active_connections
  total_requests,    \* MimirServer.total_requests
  peers,             \* the other connections whose handle_chat is in its loop
  late,              \* per message of inbox: it arrived while a text turn was in flight
  tasks,             \* MimirClient.start: the state of each of the three loop tasks
  is_recording,      \* MimirClient._is_recording
  is_speaking,       \* MimirClient._is_speaking
  all_pcm_data,      \* _decoder_loop: the decoded samples not yet queued
  output_queue,      \* MimirClient._output_queue: the chunks waiting for playback
  pcm_count,         \* the number of samples read_pcm has returned so far
  stream,            \* the scenario stream: the chunk duration of each of its parts
  stream_pos,        \* the scenario stream: how much of it has been fed
  triggers,          \* the scenario stream: how often process_audio returned true
  hist_limit,        \* how many history entries the specification lets a session reach
  init_attempts,     \* per engine: the load attempts made by the latest initialize call
  prompt,            \* per call: the payload OllamaClient.chat hands to generate
  gen_turns,         \* how many calls reached the generation since the history was last cleared
  mic_pc             \* _on_audio_input: where the microphone callback of the audio thread stands

segVars == <<config, audio_buffer, silence_start, is_speech_active, running, now, last_trigger>>

orchVars == <<initialized, processing, history, pc, kind, user_text, frags,
              chat_response, response_text, outcome, called>>

asrVars == <<model_loaded, audio_to_transcribe, handed, buffer_lock, transcription_count>>

resampleVars == <<side, audio, from_sr, to_sr, resampled>>

wireVars == <<opus_writer, opus_reader, done, inbox, srv_seen>>

textVars == <<srv_pc, ws_out, srv_text, srv_prompt, srv_asked>>

connVars == <<handler, active_connections, total_requests, peers, late>>

clientVars == <<tasks, is_recording, is_speaking, all_pcm_data, output_queue, pcm_count>>

streamVars == <<stream, stream_pos, triggers>>

startVars == <<hist_limit, init_attempts>>

genVars == <<prompt, gen_turns>>

micVars == <<mic_pc>>

edgeVars == <<resampleVars, wireVars, textVars, connVars, clientVars, streamVars, micVars>>

vars == <<config, audio_buffer, silence_start, is_speech_active, running, now, last_trigger,
          initialized, processing, history, pc, kind, user_text, frags,
          chat_response, response_text, outcome, called,
          model_loaded, audio_to_transcribe, handed, buffer_lock, transcription_count,
          side, audio, from_sr, to_sr, resampled,
          opus_writer, opus_reader, done, inbox, srv_seen,
          srv_pc, ws_out, srv_text, srv_prompt, srv_asked,
          handler, active_connections, total_requests, peers, late,
          tasks, is_recording, is_speaking, all_pcm_data, output_queue, pcm_count,
          stream, stream_pos, triggers,
          hist_limit, init_attempts, prompt, gen_turns, mic_pc>>

(***************************************************************************)
(* Bounds of the model                                                     *)
(***************************************************************************)
MaxTime == 18

MaxChunks == 3

MaxHist == 2

MaxChatHist == 4

MaxTranscriptions == 1

MaxFrags == 2

MaxFeed == 4

MaxSamples == 3

MaxBytes == 2

MaxInbox == 2

MaxPeers == 1

MaxRead == 4

MaxPcm == 8

MaxRequests == 2

(***************************************************************************)
(* Program constants (WhisperConfig defaults)                              *)
(***************************************************************************)
ChunkLength == 300

MinSpeechDuration == 3

SilenceDuration == 15

VadThreshold == 2

AudioKind == 1

\* MimirClient.frame_size: 1920 samples, counted in units of 640 samples
FrameSize == 3

NoTime == -1

NoKind == -1

(***************************************************************************)
(* Texts                                                                   *)
(***************************************************************************)
SP == " "

RECURSIVE LStrip(_)
LStrip(s) ==
  IF s = <<>> THEN s
  ELSE IF Head(s) = SP THEN LStrip(Tail(s)) ELSE s

RECURSIVE RStrip(_)
RStrip(s) ==
  IF s = <<>> THEN s
  ELSE IF s[Len(s)] = SP THEN RStrip(SubSeq(s, 1, Len(s) - 1)) ELSE s

\* str.strip()
Strip(s) ==
  LStrip(RStrip(s))

\* Python truthiness of Optional[str]: None and "" are false
NoText == <<>>

\* a slip that hands the raw engine text on without stripping it
TranscribedTextRaw(raw) ==
  raw

\* transcribe_buffer: text = result["text"].strip(); return text if text else None
\* (None and "" are both the falsy NoText)
TranscribedText(raw) ==
  Strip(raw)

(***************************************************************************)
(* Segmenter: WhisperEngine                                                *)
(***************************************************************************)
DefaultConfig ==
  [chunk_length |-> ChunkLength, min_speech_duration |-> MinSpeechDuration,
   silence_duration |-> SilenceDuration, vad_threshold |-> VadThreshold,
   vad_enabled |-> TRUE]

\* configurations a caller can construct: the defaults, VAD switched off, and
\* a maximum chunk length below the minimum speech duration
Configs ==
  {DefaultConfig,
   [DefaultConfig EXCEPT !.vad_enabled = FALSE],
   [DefaultConfig EXCEPT !.chunk_length = 2]}

RECURSIVE SumSeq(_)
SumSeq(s) ==
  IF s = <<>> THEN 0 ELSE Head(s) + SumSeq(Tail(s))

\* get_buffer_duration
BufferDuration(buf) ==
  SumSeq(buf)

\* _detect_voice_activity: rms > vad_threshold, or always true without VAD
DetectVoiceActivity(cfg, chunk) ==
  IF ~cfg.vad_enabled THEN TRUE ELSE chunk.rms > cfg.vad_threshold

\* a slip that leaves a pending silence timer running on a voiced chunk
VoiceActivityStepKeepTimer(cfg, has_voice, speech, silence, current_time) ==
  IF has_voice
  THEN [result |-> FALSE, is_speech_active |-> TRUE, silence_start |-> silence]
  ELSE IF speech
       THEN IF silence = NoTime
            THEN [result |-> FALSE, is_speech_active |-> speech, silence_start |-> current_time]
            ELSE [result |-> current_time - silence >= cfg.silence_duration,
                  is_speech_active |-> speech, silence_start |-> silence]
       ELSE [result |-> FALSE, is_speech_active |-> speech, silence_start |-> silence]

\* step 3 of should_transcribe: the voice-activity logic
VoiceActivityStep(cfg, has_voice, speech, silence, current_time) ==
  IF has_voice
  THEN [result |-> FALSE, is_speech_active |-> TRUE, silence_start |-> NoTime]
  ELSE IF speech
       THEN IF silence = NoTime
            THEN [result |-> FALSE, is_speech_active |-> speech, silence_start |-> current_time]
            ELSE [result |-> current_time - silence >= cfg.silence_duration,
                  is_speech_active |-> speech, silence_start |-> silence]
       ELSE [result |-> FALSE, is_speech_active |-> speech, silence_start |-> silence]

\* a slip that tests the too-short guard before the buffer-full trigger
ShouldTranscribeShortFirst(cfg, chunk, buf, speech, silence, current_time) ==
  LET buffer_duration == BufferDuration(buf)
      unchanged == [is_speech_active |-> speech, silence_start |-> silence]
  IN  IF buffer_duration < cfg.min_speech_duration
      THEN [result |-> FALSE] @@ unchanged
      ELSE IF buffer_duration >= cfg.chunk_length
           THEN [result |-> TRUE] @@ unchanged
           ELSE VoiceActivityStep(cfg, DetectVoiceActivity(cfg, chunk), speech, silence, current_time)

\* a slip that runs the voice-activity logic before the too-short guard
ShouldTranscribeNoGuard(cfg, chunk, buf, speech, silence, current_time) ==
  LET buffer_duration == BufferDuration(buf)
      unchanged == [is_speech_active |-> speech, silence_start |-> silence]
  IN  IF buffer_duration >= cfg.chunk_length
      THEN [result |-> TRUE] @@ unchanged
      ELSE VoiceActivityStep(cfg, DetectVoiceActivity(cfg, chunk), speech, silence, current_time)

\* a slip that updates the voice-activity state before the too-short guard
ShouldTranscribeEarlyVad(cfg, chunk, buf, speech, silence, current_time) ==
  LET buffer_duration == BufferDuration(buf)
      unchanged == [is_speech_active |-> speech, silence_start |-> silence]
      v == VoiceActivityStep(cfg, DetectVoiceActivity(cfg, chunk), speech, silence, current_time)
  IN  IF buffer_duration >= cfg.chunk_length
      THEN [result |-> TRUE] @@ unchanged
      ELSE IF buffer_duration < cfg.min_speech_duration
           THEN [v EXCEPT !.result = FALSE]
           ELSE v

\* should_transcribe(current_audio), called with the chunk already appended
ShouldTranscribe(cfg, chunk, buf, speech, silence, current_time) ==
  LET has_voice == DetectVoiceActivity(cfg, chunk)
      buffer_duration == BufferDuration(buf)
      unchanged == [is_speech_active |-> speech, silence_start |-> silence]
  IN  IF buffer_duration >= cfg.chunk_length
      THEN [result |-> TRUE] @@ unchanged
      ELSE IF buffer_duration < cfg.min_speech_duration
           THEN [result |-> FALSE] @@ unchanged
           ELSE VoiceActivityStep(cfg, has_voice, speech, silence, current_time)

\* append_audio: np.concatenate([buffer, chunk]); an empty chunk adds nothing
AppendAudio(buf, chunk) ==
  IF chunk.n = 0 THEN buf ELSE Append(buf, chunk.n)

\* audio chunks fed to the segmenter alone: n tenths of a second at energy rms;
\* the RMS of an empty chunk is NaN, which is not above any threshold
SegChunks ==
  {ch \in [n : {0, 1, 2, 150}, rms : {0, 2, 3}] : ch.n = 0 => ch.rms = 0}

\* WhisperStreamingASR.process_audio(audio_chunk)
ProcessAudio(chunk) ==
  /\ Len(audio_buffer) < MaxChunks
  /\ IF ~running
     THEN /\ last_trigger' = FALSE
          /\ UNCHANGED <<audio_buffer, silence_start, is_speech_active>>
     ELSE LET buf == AppendAudio(audio_buffer, chunk)
              r == ShouldTranscribe(config, chunk, buf, is_speech_active, silence_start, now)
          IN  /\ audio_buffer' = buf
              /\ is_speech_active' = r.is_speech_active
              /\ silence_start' = r.silence_start
              /\ last_trigger' = r.result
  /\ UNCHANGED <<config, running, now>>
  /\ UNCHANGED orchVars
  /\ UNCHANGED asrVars
  /\ UNCHANGED edgeVars
  /\ UNCHANGED startVars
  /\ UNCHANGED genVars

\* a slip that counts a failed transcription too
CountAfterAlways(n, ok) ==
  n + 1

\* transcribe_buffer: self._transcription_count += 1 stands in the try block
\* behind the engine call, so it is reached only when the engine returned
CountAfter(n, ok) ==
  IF ok THEN n + 1 ELSE n

\* threading.Lock(): nobody holds the lock
NoHolder ==
  0

\* WhisperEngine.clear_buffer
ClearBuffer ==
  /\ buffer_lock = NoHolder
  /\ audio_buffer' = <<>>
  /\ silence_start' = NoTime
  /\ is_speech_active' = FALSE
  /\ handed' = 0
  /\ UNCHANGED <<config, running, now, last_trigger>>
  /\ UNCHANGED orchVars
  /\ UNCHANGED <<model_loaded, audio_to_transcribe, buffer_lock, transcription_count>>
  /\ UNCHANGED edgeVars
  /\ UNCHANGED startVars
  /\ UNCHANGED genVars

\* WhisperStreamingASR.start
Start ==
  /\ running' = TRUE
  /\ UNCHANGED <<config, audio_buffer, silence_start, is_speech_active, now, last_trigger>>
  /\ UNCHANGED orchVars
  /\ model_loaded' = TRUE
  /\ UNCHANGED <<audio_to_transcribe, handed, buffer_lock, transcription_count>>
  /\ UNCHANGED edgeVars
  /\ UNCHANGED startVars
  /\ UNCHANGED genVars

\* WhisperStreamingASR.stop
Stop ==
  /\ buffer_lock = NoHolder
  /\ running' = FALSE
  /\ audio_buffer' = <<>>
  /\ silence_start' = NoTime
  /\ is_speech_active' = FALSE
  /\ handed' = 0
  /\ UNCHANGED <<config, now, last_trigger>>
  /\ UNCHANGED orchVars
  /\ UNCHANGED <<model_loaded, audio_to_transcribe, buffer_lock, transcription_count>>
  /\ UNCHANGED edgeVars
  /\ UNCHANGED startVars
  /\ UNCHANGED genVars

\* the wall clock advances by d tenths of a second
Tick(d) ==
  /\ now + d <= MaxTime
  /\ now' = now + d
  /\ UNCHANGED <<config, audio_buffer, silence_start, is_speech_active, running, last_trigger>>
  /\ UNCHANGED orchVars
  /\ UNCHANGED asrVars
  /\ UNCHANGED edgeVars
  /\ UNCHANGED startVars
  /\ UNCHANGED genVars

\* concurrent callers of the orchestrator's operations
Calls == {1, 2}

\* the engines MimirOrchestrator.initialize brings up, in its order
InitOrder == <<"whisper", "ollama", "xtts">>

Engines == {InitOrder[i] : i \in DOMAIN InitOrder}

\* no generation request has been built
NoPrompt == [system |-> FALSE, parts |-> 0]

\* MimirOrchestrator.__init__ and the per-call locals before any call
InitOrch ==
  /\ initialized = FALSE
  /\ processing = FALSE
  /\ history = <<>>
  /\ pc = [c \in Calls |-> "idle"]
  /\ kind = [c \in Calls |-> "none"]
  /\ user_text = [c \in Calls |-> NoText]
  /\ frags = [c \in Calls |-> <<>>]
  /\ chat_response = [c \in Calls |-> <<>>]
  /\ response_text = [c \in Calls |-> <<>>]
  /\ outcome = [c \in Calls |-> "none"]
  /\ called = [c \in Calls |-> {}]
  /\ audio_to_transcribe = [c \in Calls |-> <<>>]
  /\ init_attempts = [e \in Engines |-> 0]
  /\ prompt = [c \in Calls |-> NoPrompt]
  /\ gen_turns = 0

\* WhisperEngine.__init__ / WhisperStreamingASR.__init__
InitEngine ==
  /\ audio_buffer = <<>>
  /\ silence_start = NoTime
  /\ is_speech_active = FALSE
  /\ running = FALSE
  /\ now = 0
  /\ last_trigger = FALSE
  /\ model_loaded = FALSE
  /\ transcription_count = 0
  /\ handed = 0
  /\ buffer_lock = NoHolder

(***************************************************************************)
(* Conversation history: OllamaClient / OllamaLMAdapter                    *)
(***************************************************************************)
\* the fixed sentence OllamaLMAdapter.generate_response yields when the
\* generation raises (a non-empty text without surrounding whitespace)
Apology == <<"x">>

\* texts the transcription engine can return (result["text"], before strip)
RawTexts ==
  {<<>>, <<SP>>, <<"a">>, <<SP, "a", SP>>}

\* fragments the generation stream can yield (data["response"], may be empty)
Fragments ==
  {<<>>, <<SP>>, <<"a">>, <<"b", SP>>}

\* texts a caller hands to generate_response directly
DirectTexts == {<<"a">>}

\* a slip that leaves the oldest entry in place
ClearHistoryKeepFirst(h) ==
  IF h = <<>> THEN h ELSE <<Head(h)>>

\* OllamaClient.clear_history: self._conversation_history.clear()
ClearHistory(h) ==
  <<>>

\* chat: optional reset, then the user entry is appended before generation
ChatAppendUser(h, message, reset_history) ==
  Append(IF reset_history THEN <<>> ELSE h, [role |-> "user", content |-> message])

\* chat: the payload for generate, as whether it holds the system prompt and
\* how many history entries it holds.  The system prompt is part of
\* full_prompt only when the user entry just appended is the only entry;
\* otherwise full_prompt is built from all the entries and nothing else, and
\* generate is called without a system_prompt either way
FullPrompt(h) ==
  [system |-> Len(h) = 1, parts |-> Len(h)]

\* a slip that prepends the token to response_text
AccumulatePrepend(text, token) ==
  token \o text

\* response_text += token (in chat and in generate_response)
Accumulate(text, token) ==
  text \o token

\* chat: after the stream ended the assistant entry is appended, stripped
ChatAppendAssistant(h, text) ==
  Append(h, [role |-> "assistant", content |-> Strip(text)])

\* a slip that rolls the user entry back when the generation raises
HistoryAfterFailureRollback(h) ==
  SubSeq(h, 1, Len(h) - 1)

\* chat has no handler: when generate raises, the exception leaves chat
\* before the assistant entry is appended and the history stays as it is
HistoryAfterFailure(h) ==
  h

(***************************************************************************)
(* MimirOrchestrator                                                       *)
(***************************************************************************)
\* audio chunks handed to process_conversation_turn: an empty one, a short
\* voiced one (no trigger) and one that fills the buffer (trigger); the
\* silence trigger is exercised on the segmenter alone, under SpecSeg
TurnChunks ==
  {[n |-> 0, rms |-> 0], [n |-> 3, rms |-> 3],
   [n |-> ChunkLength, rms |-> 0]}

\* entries the calls in flight may still append, plus the entries present
Committed ==
  Len(history) + 2 * Cardinality({c \in Calls : pc[c] \in {"asr", "gen"}})

\* a slip that never rejects a call
AlreadyProcessingNever ==
  FALSE

\* process_conversation_turn: if self._processing: return None
AlreadyProcessing ==
  processing

\* a slip that leaves the flag set when the turn ends
ProcessingAfterTurnStuck ==
  TRUE

\* process_conversation_turn: finally: self._processing = False
ProcessingAfterTurn ==
  FALSE

\* the call c ends with outcome o
Finish(c, o) ==
  /\ pc' = [pc EXCEPT ![c] = "done"]
  /\ outcome' = [outcome EXCEPT ![c] = o]

\* where an engine stands in the order of initialize; "none" stands behind all
OrderOf(e) ==
  IF e = "none" THEN Len(InitOrder) + 1
  ELSE CHOOSE i \in DOMAIN InitOrder : InitOrder[i] = e

\* a slip that tries the failing engine a second time
AttemptsOfRetry(failing) ==
  [e \in Engines |-> IF e = failing THEN 2
                     ELSE IF OrderOf(e) < OrderOf(failing) THEN 1 ELSE 0]

\* initialize brings the engines up one after the other, each once, and
\* the first one that raises ends the call: the ones behind it are not tried
AttemptsOf(failing) ==
  [e \in Engines |-> IF OrderOf(e) <= OrderOf(failing) THEN 1 ELSE 0]

\* MimirOrchestrator.initialize, every engine loading successfully
Initialize ==
  /\ ~initialized
  /\ initialized' = TRUE
  /\ running' = TRUE
  /\ config' = DefaultConfig
  /\ audio_buffer' = <<>>
  /\ silence_start' = NoTime
  /\ is_speech_active' = FALSE
  /\ history' = <<>>
  /\ UNCHANGED <<now, last_trigger, processing, pc, kind, user_text, frags,
                 chat_response, response_text, outcome, called>>
  /\ model_loaded' = TRUE
  /\ transcription_count' = 0
  /\ UNCHANGED <<audio_to_transcribe, handed, buffer_lock>>
  /\ UNCHANGED edgeVars
  /\ init_attempts' = AttemptsOf("none")
  /\ gen_turns' = 0
  /\ UNCHANGED <<hist_limit, prompt>>

\* generate_response reaching the first read of the stream: chat appends the
\* user entry and generate posts the request
BeginGeneration(c, text, reset_history) ==
  /\ history' = ChatAppendUser(history, text, reset_history)
  /\ user_text' = [user_text EXCEPT ![c] = text]
  /\ called' = [called EXCEPT ![c] = @ \cup {"generation"}]
  /\ pc' = [pc EXCEPT ![c] = "gen"]
  /\ prompt' = [prompt EXCEPT ![c] = FullPrompt(ChatAppendUser(history, text, reset_history))]
  /\ gen_turns' = IF reset_history THEN 1 ELSE gen_turns + 1

\* process_conversation_turn(audio_chunk) up to its first suspension point
StartTurn(c, chunk) ==
  /\ pc[c] = "idle"
  /\ Committed + 2 <= hist_limit
  /\ Len(audio_buffer) < MaxChunks
  /\ kind' = [kind EXCEPT ![c] = "turn"]
  /\ UNCHANGED <<config, running, now, initialized, history, user_text, frags,
                 chat_response, response_text>>
  /\ IF AlreadyProcessing
     THEN /\ Finish(c, "dropped")
          /\ UNCHANGED <<processing, called, audio_buffer, silence_start,
                         is_speech_active, last_trigger>>
     ELSE IF ~initialized
     THEN \* process_audio_chunk raises RuntimeError; finally clears the flag
          /\ Finish(c, "raised")
          /\ processing' = ProcessingAfterTurn
          /\ UNCHANGED <<called, audio_buffer, silence_start, is_speech_active, last_trigger>>
     ELSE IF chunk.n = 0
     THEN \* len(audio_chunk) == 0: process_audio_chunk returns None
          /\ Finish(c, "no_trigger")
          /\ processing' = ProcessingAfterTurn
          /\ UNCHANGED <<called, audio_buffer, silence_start, is_speech_active, last_trigger>>
     ELSE IF ~running
     THEN /\ Finish(c, "no_trigger")
          /\ processing' = ProcessingAfterTurn
          /\ last_trigger' = FALSE
          /\ UNCHANGED <<called, audio_buffer, silence_start, is_speech_active>>
     ELSE LET buf == AppendAudio(audio_buffer, chunk)
              r == ShouldTranscribe(config, chunk, buf, is_speech_active, silence_start, now)
          IN  /\ audio_buffer' = buf
              /\ is_speech_active' = r.is_speech_active
              /\ silence_start' = r.silence_start
              /\ last_trigger' = r.result
              /\ IF r.result
                 THEN \* transcribe_buffer copies the buffer and awaits the engine
                      /\ pc' = [pc EXCEPT ![c] = "asr"]
                      /\ called' = [called EXCEPT ![c] = @ \cup {"transcription"}]
                      /\ processing' = TRUE
                      /\ UNCHANGED outcome
                 ELSE /\ Finish(c, "no_trigger")
                      /\ processing' = ProcessingAfterTurn
                      /\ UNCHANGED called
  /\ UNCHANGED asrVars
  /\ UNCHANGED edgeVars
  /\ UNCHANGED startVars
  /\ UNCHANGED genVars

\* the transcription returns raw (ok) or raises (~ok); transcribe_buffer
\* clears the buffer either way, and the turn goes on to the generation
TurnAfterTranscription(c, raw, ok) ==
  /\ pc[c] = "asr"
  /\ audio_buffer' = <<>>
  /\ silence_start' = NoTime
  /\ is_speech_active' = FALSE
  /\ UNCHANGED <<config, running, now, last_trigger, initialized, kind, frags,
                 chat_response, response_text>>
  /\ LET text == IF ok THEN TranscribedText(raw) ELSE NoText
     IN  IF text = NoText
         THEN \* if not user_text: return None
              /\ Finish(c, "no_text")
              /\ processing' = ProcessingAfterTurn
              /\ UNCHANGED <<history, user_text, called, prompt, gen_turns>>
         ELSE /\ BeginGeneration(c, text, FALSE)
              /\ UNCHANGED <<processing, outcome>>
  /\ UNCHANGED <<model_loaded, audio_to_transcribe, handed, buffer_lock>>
  /\ UNCHANGED edgeVars
  /\ UNCHANGED startVars

\* the same return with the engine's statistics left out
TranscriptionReturns(c, raw, ok) ==
  /\ TurnAfterTranscription(c, raw, ok)
  /\ UNCHANGED transcription_count

\* the same return with the engine's statistics followed
TranscriptionCounted(c, raw, ok) ==
  /\ ok => transcription_count < MaxTranscriptions
  /\ TurnAfterTranscription(c, raw, ok)
  /\ transcription_count' = CountAfter(transcription_count, ok)

\* MimirOrchestrator.generate_response(user_text) called directly
GenerateResponse(c, text) ==
  /\ pc[c] = "idle"
  /\ Committed + 2 <= hist_limit
  /\ kind' = [kind EXCEPT ![c] = "generate"]
  /\ UNCHANGED segVars
  /\ UNCHANGED <<initialized, processing, frags, chat_response, response_text>>
  /\ IF ~initialized
     THEN /\ Finish(c, "raised")
          /\ UNCHANGED <<history, user_text, called, prompt, gen_turns>>
     ELSE /\ BeginGeneration(c, text, FALSE)
          /\ UNCHANGED outcome
  /\ UNCHANGED asrVars
  /\ UNCHANGED edgeVars
  /\ UNCHANGED startVars

\* OllamaLMAdapter.generate_response_complete(user_text, reset_conversation)
\* called on the orchestrator's adapter with reset_conversation=True
AdapterGenerate(c, text) ==
  /\ pc[c] = "idle"
  /\ initialized
  /\ Committed + 2 <= hist_limit
  /\ kind' = [kind EXCEPT ![c] = "adapter"]
  /\ UNCHANGED segVars
  /\ UNCHANGED <<initialized, processing, frags, chat_response, response_text, outcome>>
  /\ BeginGeneration(c, text, TRUE)
  /\ UNCHANGED asrVars
  /\ UNCHANGED edgeVars
  /\ UNCHANGED startVars

\* the stream yields one fragment: chat and the caller both accumulate it
GenerationYields(c, token) ==
  /\ pc[c] = "gen"
  /\ Len(frags[c]) < MaxFrags
  /\ frags' = [frags EXCEPT ![c] = Append(@, token)]
  /\ chat_response' = [chat_response EXCEPT ![c] = Accumulate(@, token)]
  /\ response_text' = [response_text EXCEPT ![c] = Accumulate(@, token)]
  /\ UNCHANGED segVars
  /\ UNCHANGED <<initialized, processing, history, pc, kind, user_text, outcome, called>>
  /\ UNCHANGED asrVars
  /\ UNCHANGED edgeVars
  /\ UNCHANGED startVars
  /\ UNCHANGED genVars

\* what follows the generation in the caller: a turn with a response goes on
\* to the synthesis, a turn without one returns None, a direct call returns
AfterGeneration(c, text) ==
  /\ response_text' = [response_text EXCEPT ![c] = text]
  /\ IF kind[c] = "turn"
     THEN IF text = NoText
          THEN \* if not response_text: return None
               /\ Finish(c, "no_response")
               /\ processing' = ProcessingAfterTurn
               /\ UNCHANGED called
          ELSE \* synthesize_speech awaits the synthesis engine
               /\ pc' = [pc EXCEPT ![c] = "tts"]
               /\ called' = [called EXCEPT ![c] = @ \cup {"synthesis"}]
               /\ UNCHANGED <<processing, outcome>>
     ELSE /\ Finish(c, "returned")
          /\ UNCHANGED <<processing, called>>

\* the async generators of chat and of the adapter are finished: the stream
\* and chat's response_text are gone
StreamClosed(c) ==
  /\ frags' = [frags EXCEPT ![c] = <<>>]
  /\ chat_response' = [chat_response EXCEPT ![c] = <<>>]
  /\ prompt' = [prompt EXCEPT ![c] = NoPrompt]

\* the stream ends: chat appends the assistant entry, the caller strips
GenerationEnds(c) ==
  /\ pc[c] = "gen"
  /\ history' = ChatAppendAssistant(history, chat_response[c])
  /\ AfterGeneration(c, Strip(response_text[c]))
  /\ StreamClosed(c)
  /\ UNCHANGED segVars
  /\ UNCHANGED <<initialized, kind, user_text>>
  /\ UNCHANGED asrVars
  /\ UNCHANGED edgeVars
  /\ UNCHANGED startVars
  /\ UNCHANGED gen_turns

\* a slip that answers a failed generation with the apology alone
ResponseAfterFailureApologyOnly(text) ==
  Apology

\* the adapter's handler yields the apology as one more fragment, which the
\* orchestrator accumulates behind the ones it has, and strips at the end
ResponseAfterFailure(text) ==
  Strip(Accumulate(text, Apology))

\* the generation raises: the exception leaves chat, the adapter yields the
\* apology as one more fragment and ends, the caller strips
GenerationFails(c) ==
  /\ pc[c] = "gen"
  /\ history' = HistoryAfterFailure(history)
  /\ AfterGeneration(c, ResponseAfterFailure(response_text[c]))
  /\ StreamClosed(c)
  /\ UNCHANGED segVars
  /\ UNCHANGED <<initialized, kind, user_text>>
  /\ UNCHANGED asrVars
  /\ UNCHANGED edgeVars
  /\ UNCHANGED startVars
  /\ UNCHANGED gen_turns

\* the synthesis returns audio (ok) or raises and synthesize returns None;
\* process_conversation_turn returns it and its locals are gone
SynthesisReturns(c, ok) ==
  /\ pc[c] = "tts"
  /\ kind[c] = "turn"
  /\ Finish(c, IF ok THEN "audio" ELSE "no_audio")
  /\ processing' = ProcessingAfterTurn
  /\ user_text' = [user_text EXCEPT ![c] = NoText]
  /\ response_text' = [response_text EXCEPT ![c] = <<>>]
  /\ UNCHANGED segVars
  /\ UNCHANGED <<initialized, history, kind, frags, chat_response, called>>
  /\ UNCHANGED asrVars
  /\ UNCHANGED edgeVars
  /\ UNCHANGED startVars
  /\ UNCHANGED genVars

\* MimirOrchestrator.initialize with the engine e failing to come up: the
\* engines before e are up, the exception leaves initialize before
\* _initialized is set
InitializeFails(e) ==
  /\ ~initialized
  /\ init_attempts' = AttemptsOf(e)
  /\ config' = DefaultConfig
  /\ audio_buffer' = <<>>
  /\ silence_start' = NoTime
  /\ is_speech_active' = FALSE
  /\ running' = (e # "whisper")
  /\ model_loaded' = (e # "whisper")
  /\ history' = IF e = "whisper" THEN history ELSE <<>>
  /\ gen_turns' = IF e = "whisper" THEN gen_turns ELSE 0
  /\ UNCHANGED <<now, last_trigger, initialized, processing, pc, kind, user_text, frags,
                 chat_response, response_text, outcome, called>>
  /\ transcription_count' = 0
  /\ UNCHANGED <<audio_to_transcribe, handed, buffer_lock>>
  /\ UNCHANGED edgeVars
  /\ UNCHANGED <<hist_limit, prompt>>

\* MimirOrchestrator.synthesize_speech(text) called directly, up to its await
SynthesizeSpeech(c, text) ==
  /\ pc[c] = "idle"
  /\ kind' = [kind EXCEPT ![c] = "synth"]
  /\ IF ~initialized
     THEN /\ Finish(c, "raised")
          /\ UNCHANGED called
     ELSE /\ pc' = [pc EXCEPT ![c] = "tts"]
          /\ called' = [called EXCEPT ![c] = @ \cup {"synthesis"}]
          /\ UNCHANGED outcome
  /\ UNCHANGED segVars
  /\ UNCHANGED <<initialized, processing, history, user_text, frags,
                 chat_response, response_text>>
  /\ UNCHANGED asrVars
  /\ UNCHANGED edgeVars
  /\ UNCHANGED startVars
  /\ UNCHANGED genVars

\* the synthesis of a direct synthesize_speech call returns audio (ok) or None
DirectSynthesisReturns(c, ok) ==
  /\ pc[c] = "tts"
  /\ kind[c] = "synth"
  /\ Finish(c, IF ok THEN "audio" ELSE "no_audio")
  /\ UNCHANGED segVars
  /\ UNCHANGED <<initialized, processing, history, kind, user_text, frags,
                 chat_response, response_text, called>>
  /\ UNCHANGED asrVars
  /\ UNCHANGED edgeVars
  /\ UNCHANGED startVars
  /\ UNCHANGED genVars

\* the caller takes the result; the slot is free for the next call
Return(c) ==
  /\ pc[c] = "done"
  /\ pc' = [pc EXCEPT ![c] = "idle"]
  /\ kind' = [kind EXCEPT ![c] = "none"]
  /\ user_text' = [user_text EXCEPT ![c] = NoText]
  /\ frags' = [frags EXCEPT ![c] = <<>>]
  /\ chat_response' = [chat_response EXCEPT ![c] = <<>>]
  /\ response_text' = [response_text EXCEPT ![c] = <<>>]
  /\ outcome' = [outcome EXCEPT ![c] = "none"]
  /\ called' = [called EXCEPT ![c] = {}]
  /\ UNCHANGED segVars
  /\ UNCHANGED <<initialized, processing, history>>
  /\ UNCHANGED asrVars
  /\ UNCHANGED edgeVars
  /\ UNCHANGED startVars
  /\ UNCHANGED genVars

\* MimirOrchestrator.reset_conversation
ResetConversation ==
  /\ history' = IF initialized THEN ClearHistory(history) ELSE history
  /\ UNCHANGED segVars
  /\ UNCHANGED <<initialized, processing, pc, kind, user_text, frags,
                 chat_response, response_text, outcome, called>>
  /\ UNCHANGED asrVars
  /\ UNCHANGED edgeVars
  /\ gen_turns' = IF initialized THEN 0 ELSE gen_turns
  /\ UNCHANGED startVars
  /\ UNCHANGED prompt

\* no scenario stream is fed
NoStream ==
  /\ stream = <<1, 1, 1>>
  /\ stream_pos = 0
  /\ triggers = 0

\* no resample_audio call has been made
NoResampleCall ==
  /\ side = "none"
  /\ audio = <<>>
  /\ from_sr = 1
  /\ to_sr = 1
  /\ resampled = [status |-> "none", samples |-> <<>>]

\* the three loops MimirClient.start runs as tasks
Loops == {"queue", "decoder", "recv"}

\* no payload is posted
NoPayload == [prompt |-> <<>>, system |-> ""]

\* MimirClient.__init__ and a server before any connection
InitSession ==
  /\ opus_writer = <<>>
  /\ opus_reader = <<>>
  /\ done = FALSE
  /\ inbox = <<>>
  /\ srv_seen = [kind |-> NoKind, audio_data |-> <<>>]
  /\ srv_pc = "idle"
  /\ ws_out = <<>>
  /\ srv_text = <<>>
  /\ srv_prompt = NoPayload
  /\ srv_asked = <<>>
  /\ handler = "none"
  /\ active_connections = 0
  /\ total_requests = 0
  /\ peers = 0
  /\ late = <<>>
  /\ tasks = [l \in Loops |-> "none"]
  /\ is_recording = FALSE
  /\ is_speaking = FALSE
  /\ all_pcm_data = <<>>
  /\ output_queue = <<>>
  /\ pcm_count = 0
  /\ mic_pc = "idle"

Init ==
  /\ config = DefaultConfig
  /\ InitEngine
  /\ InitOrch
  /\ hist_limit = MaxHist
  /\ NoResampleCall
  /\ InitSession
  /\ NoStream

Next ==
  \/ Initialize
  \/ \E c \in Calls, chunk \in TurnChunks : StartTurn(c, chunk)
  \/ \E c \in Calls, raw \in RawTexts, ok \in BOOLEAN : TranscriptionReturns(c, raw, ok)
  \/ \E c \in Calls, text \in DirectTexts : GenerateResponse(c, text)
  \/ \E c \in Calls, text \in DirectTexts : AdapterGenerate(c, text)
  \/ \E c \in Calls, token \in Fragments : GenerationYields(c, token)
  \/ \E c \in Calls : GenerationEnds(c)
  \/ \E c \in Calls : GenerationFails(c)
  \/ \E c \in Calls, ok \in BOOLEAN : SynthesisReturns(c, ok)
  \/ \E c \in Calls : Return(c)
  \/ ResetConversation

Spec == Init /\ [][Next]_vars

(***************************************************************************)
(* One session over several turns: start-up, turns, direct calls, reset    *)
(***************************************************************************)
\* the chunk of a turn: it fills the buffer and triggers
ChatChunk ==
  [n |-> ChunkLength, rms |-> 0]

\* what the caller c says and what the generation answers it, in at most
\* one fragment: each caller has a letter of its own, so an entry tells which
\* call appended it
TextOf(c) ==
  <<IF c = 1 THEN "a" ELSE "b">>

InitChat ==
  /\ config = DefaultConfig
  /\ InitEngine
  /\ InitOrch
  /\ hist_limit = MaxChatHist
  /\ NoResampleCall
  /\ InitSession
  /\ NoStream

NextChat ==
  \/ Initialize
  \/ \E e \in Engines : InitializeFails(e)
  \/ \E c \in Calls : StartTurn(c, ChatChunk)
  \/ \E c \in Calls, ok \in BOOLEAN : TranscriptionCounted(c, TextOf(c), ok)
  \/ \E c \in Calls : GenerateResponse(c, TextOf(c))
  \/ \E c \in Calls : SynthesizeSpeech(c, TextOf(c))
  \/ \E c \in Calls : frags[c] = <<>> /\ GenerationYields(c, TextOf(c))
  \/ \E c \in Calls : GenerationEnds(c)
  \/ \E c \in Calls : GenerationFails(c)
  \/ \E c \in Calls, ok \in BOOLEAN : SynthesisReturns(c, ok)
  \/ \E c \in Calls, ok \in BOOLEAN : DirectSynthesisReturns(c, ok)
  \/ \E c \in Calls : Return(c)
  \/ ResetConversation

SpecChat == InitChat /\ [][NextChat]_vars

\* no call is in flight: every caller is before its call or has its result
Quiet ==
  \A d \in Calls : pc[d] \in {"idle", "done"}

\* the session used by one caller at a time, with a generation backend that
\* does not fail: a turn or a direct generate_response is only called when
\* no other call is in flight
NextSeq ==
  \/ Initialize
  \/ \E c \in Calls : Quiet /\ StartTurn(c, ChatChunk)
  \/ \E c \in Calls, ok \in BOOLEAN : TranscriptionCounted(c, TextOf(c), ok)
  \/ \E c \in Calls : Quiet /\ GenerateResponse(c, TextOf(c))
  \/ \E c \in Calls : frags[c] = <<>> /\ GenerationYields(c, TextOf(c))
  \/ \E c \in Calls : GenerationEnds(c)
  \/ \E c \in Calls, ok \in BOOLEAN : SynthesisReturns(c, ok)
  \/ \E c \in Calls : Return(c)
  \/ ResetConversation

SpecSeq == InitChat /\ [][NextSeq]_vars

InitSeg ==
  /\ config \in Configs
  /\ InitEngine
  /\ InitOrch
  /\ hist_limit = MaxHist
  /\ NoResampleCall
  /\ InitSession
  /\ NoStream

NextSeg ==
  \/ \E chunk \in SegChunks : ProcessAudio(chunk)
  \/ ClearBuffer
  \/ Start
  \/ Stop
  \/ \E d \in 1..2 : Tick(d)

SpecSeg == InitSeg /\ [][NextSeg]_vars

(***************************************************************************)
(* WhisperStreamingASR with its callers: feeding and finalizing            *)
(***************************************************************************)
\* chunks fed to the streaming ASR: an empty one, a voiced one that passes
\* the too-short guard, a silent one and one whose energy is just the
\* threshold (not above it: unvoiced); the duration tells voiced from unvoiced
AsrChunks ==
  {[n |-> 0, rms |-> 0], [n |-> MinSpeechDuration, rms |-> VadThreshold + 1],
   [n |-> 1, rms |-> 0], [n |-> 1, rms |-> VadThreshold]}

\* the wall clock between two chunks: less than silence_duration, or all of it
AsrTicks ==
  {5, SilenceDuration}

\* a slip that takes no buffer for empty
BufferIsEmptyNever(buf) ==
  FALSE

\* transcribe_buffer: len(self._audio_buffer) == 0
BufferIsEmpty(buf) ==
  Len(buf) = 0

\* a slip that keeps the lock through the engine call
LockAfterCopyHeld(c) ==
  c

\* the holder of the buffer lock when transcribe_buffer reaches its await:
\* the with block that takes the copy has been left
LockAfterCopy(c) ==
  NoHolder

\* transcribe_buffer on the buffer buf, up to its suspension point: it raises
\* without a model, returns None on an empty buffer, and otherwise copies the
\* buffer under the lock and awaits the engine in the executor
TranscribeBuffer(c, buf) ==
  IF ~model_loaded
  THEN /\ Finish(c, "raised")
       /\ UNCHANGED <<audio_to_transcribe, called, handed, buffer_lock>>
  ELSE IF BufferIsEmpty(buf)
  THEN /\ buffer_lock = NoHolder
       /\ Finish(c, "no_text")
       /\ UNCHANGED <<audio_to_transcribe, called, handed, buffer_lock>>
  ELSE /\ buffer_lock = NoHolder
       /\ audio_to_transcribe' = [audio_to_transcribe EXCEPT ![c] = buf]
       /\ handed' = Len(buf)
       /\ buffer_lock' = LockAfterCopy(c)
       /\ pc' = [pc EXCEPT ![c] = "asr"]
       /\ called' = [called EXCEPT ![c] = @ \cup {"transcription"}]
       /\ UNCHANGED outcome

\* a caller feeds one chunk: process_audio(chunk) and, when it returned true,
\* await get_transcription()
FeedChunk(c, chunk) ==
  /\ pc[c] = "idle"
  /\ Len(audio_buffer) < MaxFeed
  /\ kind' = [kind EXCEPT ![c] = "feed"]
  /\ IF ~running
     THEN /\ last_trigger' = FALSE
          /\ Finish(c, "no_trigger")
          /\ UNCHANGED <<audio_buffer, silence_start, is_speech_active,
                         audio_to_transcribe, called, handed, buffer_lock>>
     ELSE LET buf == AppendAudio(audio_buffer, chunk)
              r == ShouldTranscribe(config, chunk, buf, is_speech_active, silence_start, now)
          IN  /\ buffer_lock = NoHolder
              /\ audio_buffer' = buf
              /\ is_speech_active' = r.is_speech_active
              /\ silence_start' = r.silence_start
              /\ last_trigger' = r.result
              /\ IF r.result
                 THEN TranscribeBuffer(c, buf)
                 ELSE /\ Finish(c, "no_trigger")
                      /\ UNCHANGED <<audio_to_transcribe, called, handed, buffer_lock>>
  /\ UNCHANGED <<config, running, now, model_loaded, transcription_count>>
  /\ UNCHANGED <<initialized, processing, history, user_text, frags,
                 chat_response, response_text>>
  /\ UNCHANGED edgeVars
  /\ UNCHANGED startVars
  /\ UNCHANGED genVars

\* WhisperStreamingASR.get_transcription called on its own (a caller-driven
\* finalize, whether or not a trigger fired)
GetTranscription(c) ==
  /\ pc[c] = "idle"
  /\ kind' = [kind EXCEPT ![c] = "finalize"]
  /\ TranscribeBuffer(c, audio_buffer)
  /\ UNCHANGED segVars
  /\ UNCHANGED <<initialized, processing, history, user_text, frags,
                 chat_response, response_text, model_loaded, transcription_count>>
  /\ UNCHANGED edgeVars
  /\ UNCHANGED startVars
  /\ UNCHANGED genVars

\* the engine returns raw (ok) or raises (~ok): transcribe_buffer clears the
\* buffer, the silence timer and the speech flag, and returns the text or None
EngineReturns(c, raw, ok) ==
  /\ pc[c] = "asr"
  /\ kind[c] \in {"feed", "finalize"}
  /\ buffer_lock = NoHolder
  /\ ok => transcription_count < MaxTranscriptions
  /\ transcription_count' = CountAfter(transcription_count, ok)
  /\ audio_buffer' = <<>>
  /\ handed' = 0
  /\ silence_start' = NoTime
  /\ is_speech_active' = FALSE
  /\ LET text == IF ok THEN TranscribedText(raw) ELSE NoText
     IN  /\ user_text' = [user_text EXCEPT ![c] = text]
         /\ Finish(c, IF text = NoText THEN "no_text" ELSE "text")
  /\ audio_to_transcribe' = [audio_to_transcribe EXCEPT ![c] = <<>>]
  /\ UNCHANGED <<config, running, now, last_trigger, model_loaded, buffer_lock>>
  /\ UNCHANGED <<initialized, processing, history, kind, frags,
                 chat_response, response_text, called>>
  /\ UNCHANGED edgeVars
  /\ UNCHANGED startVars
  /\ UNCHANGED genVars

NextAsr ==
  \/ Start
  \/ Stop
  \/ \E d \in AsrTicks : Tick(d)
  \/ \E c \in Calls, chunk \in AsrChunks : FeedChunk(c, chunk)
  \/ \E c \in Calls : GetTranscription(c)
  \/ \E c \in Calls, raw \in RawTexts, ok \in BOOLEAN : EngineReturns(c, raw, ok)
  \/ \E c \in Calls : Return(c)

SpecAsr == Init /\ [][NextAsr]_vars

(***************************************************************************)
(* The segmenter fed a stream in real time                                 *)
(*                                                                         *)
(* The stream is 0.4 s of silence, 2.0 s of voiced audio and 1.6 s of      *)
(* silence.  It arrives in chunks; a chunk of n tenths of a second is      *)
(* handed to process_audio when it is complete, n tenths after the one     *)
(* before.  Each part of the stream is cut into chunks of one duration.    *)
(***************************************************************************)
\* the parts of the stream: duration and energy
StreamParts ==
  <<[len |-> 4, rms |-> 0], [len |-> 20, rms |-> VadThreshold + 1], [len |-> 16, rms |-> 0]>>

\* the duration of the whole stream
StreamEnd ==
  StreamParts[1].len + StreamParts[2].len + StreamParts[3].len

\* the chunk durations a part can be cut into: 0.1 s, 0.2 s, 0.4 s
ChunkDurations == {1, 2, 4}

\* the part of the stream that starts at or holds position pos
PartAt(pos) ==
  IF pos < StreamParts[1].len THEN 1
  ELSE IF pos < StreamParts[1].len + StreamParts[2].len THEN 2 ELSE 3

\* the chunk of the stream that starts at pos
StreamChunk(pos) ==
  [n |-> stream[PartAt(pos)], rms |-> StreamParts[PartAt(pos)].rms]

InitStream ==
  /\ config = DefaultConfig
  /\ InitEngine
  /\ InitOrch
  /\ hist_limit = MaxHist
  /\ NoResampleCall
  /\ InitSession
  /\ stream \in [1..3 -> ChunkDurations]
  /\ stream_pos = 0
  /\ triggers = 0

\* the next chunk of the stream is complete and handed to process_audio
FeedStream ==
  /\ running
  /\ stream_pos < StreamEnd
  /\ LET chunk == StreamChunk(stream_pos)
         current_time == now + chunk.n
         buf == AppendAudio(audio_buffer, chunk)
         r == ShouldTranscribe(config, chunk, buf, is_speech_active, silence_start, current_time)
     IN  /\ now' = current_time
         /\ stream_pos' = stream_pos + chunk.n
         /\ audio_buffer' = buf
         /\ is_speech_active' = r.is_speech_active
         /\ silence_start' = r.silence_start
         /\ last_trigger' = r.result
         /\ triggers' = IF r.result THEN triggers + 1 ELSE triggers
  /\ UNCHANGED <<config, running, stream>>
  /\ UNCHANGED <<orchVars, asrVars, startVars, genVars, micVars, resampleVars, wireVars, textVars, connVars, clientVars>>

NextStream ==
  \/ Start
  \/ FeedStream

SpecStream == InitStream /\ [][NextStream]_vars

(***************************************************************************)
(* resample_audio of WhisperMimiAdapter and of XTTSMimiAdapter             *)
(*                                                                         *)
(* A sample is an integer amplitude; a rate is counted in units of 8 kHz   *)
(* (16 kHz = 2, 24 kHz = 3).  An interpolated value is truncated to an     *)
(* integer amplitude.                                                      *)
(***************************************************************************)
Samples == {0, 2}

Rates == {2, 3, 4}

\* the audio arguments: every sequence of at most MaxSamples samples
Audios ==
  UNION {[1..n -> Samples] : n \in 0..MaxSamples}

\* a slip that truncates the duration before scaling it:
\* int(len(audio) / from_sr) * to_sr
NewLengthsTruncatedFirst(n, from, to) ==
  {(n \div from) * to}

\* new_length = int(len(audio) / from_sr * to_sr).  The quotient is a float:
\* when n * to / from is a whole number q the float product is q or just
\* below q, and int() then gives q or q - 1; otherwise it gives the floor.
NewLengths(n, from, to) ==
  LET q == (n * to) \div from
  IN  IF (n * to) % from = 0 /\ q > 0 THEN {q - 1, q} ELSE {q}

\* np.interp(x, np.arange(len(a)), a) at the position x = num / den
InterpAt(a, num, den) ==
  LET lo == num \div den
      r == num % den
  IN  IF r = 0 THEN a[lo + 1]
      ELSE (a[lo + 1] * (den - r) + a[lo + 2] * r) \div den

\* np.interp(np.linspace(0, len(a) - 1, m), np.arange(len(a)), a): np.interp
\* raises ValueError when the array of sample points is empty
Interp(a, m) ==
  IF Len(a) = 0
  THEN [status |-> "raised", samples |-> <<>>]
  ELSE [status |-> "returned",
        samples |-> [k \in 1..m |->
                      IF m = 1 THEN a[1]
                      ELSE InterpAt(a, (k - 1) * (Len(a) - 1), m - 1)]]

\* a slip that leaves out the equal-rates shortcut
WhisperResampleAlways(a, from, to, new_length) ==
  Interp(a, new_length)

\* WhisperMimiAdapter.resample_audio(audio, from_sr, to_sr), new_length being
\* what int(duration * to_sr) gave
WhisperResampleAudio(a, from, to, new_length) ==
  IF from = to
  THEN [status |-> "returned", samples |-> a]
  ELSE Interp(a, new_length)

\* XTTSMimiAdapter.resample_audio(audio, from_sr, to_sr)
XttsResampleAudio(a, from, to, new_length) ==
  IF from = to
  THEN [status |-> "returned", samples |-> a]
  ELSE Interp(a, new_length)

\* a call of resample_audio with arguments drawn from the bounded sets
InitResample ==
  /\ side \in {"whisper", "xtts"}
  /\ audio \in Audios
  /\ from_sr \in Rates
  /\ to_sr \in Rates
  /\ resampled = [status |-> "none", samples |-> <<>>]

\* the Whisper-side call runs
WhisperResample ==
  /\ side = "whisper"
  /\ resampled.status = "none"
  /\ \E m \in NewLengths(Len(audio), from_sr, to_sr) :
       resampled' = WhisperResampleAudio(audio, from_sr, to_sr, m)
  /\ UNCHANGED <<side, audio, from_sr, to_sr>>
  /\ UNCHANGED <<segVars, orchVars, asrVars, startVars, genVars, micVars, streamVars, clientVars, connVars, wireVars, textVars>>

\* the XTTS-side call runs
XttsResample ==
  /\ side = "xtts"
  /\ resampled.status = "none"
  /\ \E m \in NewLengths(Len(audio), from_sr, to_sr) :
       resampled' = XttsResampleAudio(audio, from_sr, to_sr, m)
  /\ UNCHANGED <<side, audio, from_sr, to_sr>>
  /\ UNCHANGED <<segVars, orchVars, asrVars, startVars, genVars, micVars, streamVars, clientVars, connVars, wireVars, textVars>>

InitResampleSpec ==
  /\ config = DefaultConfig
  /\ InitEngine
  /\ InitOrch
  /\ hist_limit = MaxHist
  /\ InitResample
  /\ InitSession
  /\ NoStream

NextResample ==
  \/ WhisperResample
  \/ XttsResample

SpecResample == InitResampleSpec /\ [][NextResample]_vars

(***************************************************************************)
(* Transport: MimirClient and one connection of MimirServer.handle_chat    *)
(*                                                                         *)
(* A message is a record: its WebSocket type, the "type" field of its JSON *)
(* text ("malformed" when the text is not JSON) and its binary data.  The  *)
(* handler of a connection takes the next message only when the previous   *)
(* one is handled (async for msg in ws: await ...).                        *)
(***************************************************************************)
\* what the encoder hands out at a time: one byte of codec data
EncodedChunks ==
  {<<2>>}

\* binary messages of every shape: empty, a kind byte alone, audio with a
\* payload, another kind with a payload
BinaryFrames ==
  {<<>>, <<AudioKind>>, <<2>>, <<AudioKind, 2>>, <<2, AudioKind>>}

\* the JSON texts a client can send, by their "type" field
JsonTypes == {"text", "ping", "other", "malformed"}

TextMessage(j) ==
  [type |-> "TEXT", json |-> j, data |-> <<>>]

\* the texts a text-mode client asks in the scenarios that follow the
\* content of the messages
UserTexts == {<<"a">>, <<"b">>}

\* {"type": "text", "data": content}
UserTextMessage(content) ==
  [type |-> "TEXT", json |-> "text", data |-> content]

\* config["personality"]["system_prompt"] of the server
SystemPrompt == "personality"

OwnConnection == "own"

PeerConnection == "peer"

\* one _handle_text_input call: the connection whose handler made it and
\* its user_text
Asked(conn, content) ==
  [conn |-> conn, text |-> content]

\* a slip that keeps the client across the turns and sends the earlier
\* input in front of the new one
GeneratePayloadCarried(prompt_text, system_prompt) ==
  [prompt |-> (IF srv_asked = <<>> THEN <<>> ELSE srv_asked[Len(srv_asked)].text) \o prompt_text,
   system |-> system_prompt]

\* OllamaClient.generate of a client just made by OllamaClient(): the
\* "prompt" and "system" entries of the payload are the two arguments, and
\* nothing of _conversation_history enters it
GeneratePayload(prompt_text, system_prompt) ==
  [prompt |-> prompt_text, system |-> system_prompt]

BinaryMessage(d) ==
  [type |-> "BINARY", json |-> "", data |-> d]

\* what the client's receive loop can be handed by the connection
ServerFrames ==
  {[type |-> t, json |-> "", data |-> <<>>] : t \in {"CLOSED", "ERROR", "TEXT"}}
    \cup {BinaryMessage(d) : d \in BinaryFrames}

\* a slip that sends the codec bytes without the kind byte
FrameAudioBare(msg) ==
  msg

\* _queue_loop: b"\x01" + msg
FrameAudio(msg) ==
  <<AudioKind>> \o msg

\* a text turn of the connection is in flight: _handle_text_input has not
\* returned
InTurn ==
  srv_pc # "idle"

\* the client's end of the connection is open: the handler is in its loop and
\* no close or error is on its way to it
Open ==
  /\ handler = "running"
  /\ \A i \in 1..Len(inbox) : inbox[i].type \notin {"CLOSE", "ERROR"}

\* the text inputs the connection has still to handle
PendingTexts ==
  Cardinality({i \in 1..Len(inbox) : inbox[i].type = "TEXT" /\ inbox[i].json = "text"})

\* MimirClient.start past the connection and the audio streams: recording is
\* on and the three loops run as tasks
ClientStart ==
  /\ handler = "running"
  /\ \A l \in Loops : tasks[l] = "none"
  /\ is_recording' = TRUE
  /\ tasks' = [l \in Loops |-> "running"]
  /\ UNCHANGED <<is_speaking, all_pcm_data, output_queue, pcm_count>>
  /\ UNCHANGED <<segVars, orchVars, asrVars, startVars, genVars, micVars, streamVars, resampleVars, wireVars, textVars, connVars>>

\* the state of a loop task after a round: while not self._done
AfterRound(d) ==
  IF d THEN "ended" ELSE "running"

\* _on_audio_input, line 64: the test that lets a block of microphone audio
\* through
MicGate(recording, speaking) ==
  recording /\ ~speaking

\* _on_audio_input as one step, for the sessions that do not follow the
\* audio thread between the test and append_pcm: a block passes the test and
\* the encoder has bytes ready for read_bytes
EncoderProduces(bytes) ==
  /\ MicGate(is_recording, is_speaking)
  /\ Len(opus_writer) + Len(bytes) <= MaxBytes
  /\ opus_writer' = opus_writer \o bytes
  /\ UNCHANGED <<opus_reader, done, inbox, srv_seen>>
  /\ UNCHANGED <<segVars, orchVars, asrVars, startVars, genVars, micVars, streamVars, clientVars, connVars, resampleVars, textVars>>

\* _on_audio_input up to its test: the audio thread calls it for every
\* block of the input stream, and a block that passes the test is on its way
\* to the encoder (a block that does not pass is dropped and nothing changes)
OnAudioInput ==
  /\ mic_pc = "idle"
  /\ MicGate(is_recording, is_speaking)
  /\ mic_pc' = "passing"
  /\ UNCHANGED <<segVars, orchVars, asrVars, startVars, genVars, streamVars, clientVars, connVars, resampleVars, textVars, wireVars>>

\* _on_audio_input, lines 66-67: append_pcm hands the block to the encoder.
\* The callback runs in the audio thread, so the event loop's thread may
\* have run between the test and this call
AppendPcm(bytes) ==
  /\ mic_pc = "passing"
  /\ Len(opus_writer) + Len(bytes) <= MaxBytes
  /\ opus_writer' = opus_writer \o bytes
  /\ mic_pc' = "idle"
  /\ UNCHANGED <<opus_reader, done, inbox, srv_seen>>
  /\ UNCHANGED <<segVars, orchVars, asrVars, startVars, genVars, streamVars, clientVars, connVars, resampleVars, textVars>>

\* one round of _queue_loop: read_bytes takes what the encoder has; a
\* non-empty read is framed and sent, and a failing send ends the loop
QueueLoop(send_ok) ==
  /\ tasks["queue"] = "running"
  /\ (Len(opus_writer) > 0 /\ send_ok) => Len(inbox) < MaxInbox
  /\ opus_writer' = <<>>
  /\ IF Len(opus_writer) > 0
     THEN IF send_ok
          THEN /\ inbox' = Append(inbox, BinaryMessage(FrameAudio(opus_writer)))
               /\ late' = Append(late, InTurn)
               /\ tasks' = [tasks EXCEPT !["queue"] = AfterRound(done)]
               /\ UNCHANGED done
          ELSE /\ done' = TRUE
               /\ tasks' = [tasks EXCEPT !["queue"] = "ended"]
               /\ UNCHANGED <<inbox, late>>
     ELSE /\ tasks' = [tasks EXCEPT !["queue"] = AfterRound(done)]
          /\ UNCHANGED <<inbox, late, done>>
  /\ UNCHANGED <<opus_reader, srv_seen>>
  /\ UNCHANGED <<handler, active_connections, total_requests, peers>>
  /\ UNCHANGED <<is_recording, is_speaking, all_pcm_data, output_queue, pcm_count>>
  /\ UNCHANGED <<segVars, orchVars, asrVars, startVars, genVars, micVars, streamVars, resampleVars, textVars>>

\* one round of _recv_loop on the message the connection hands over; the
\* loop ends on a close or an error and its finally clause sets _done
RecvLoop(message) ==
  /\ tasks["recv"] = "running"
  /\ IF message.type \in {"CLOSED", "ERROR"}
     THEN /\ done' = TRUE
          /\ tasks' = [tasks EXCEPT !["recv"] = "ended"]
          /\ UNCHANGED opus_reader
     ELSE IF message.type # "BINARY" \/ Len(message.data) = 0
     THEN UNCHANGED <<done, opus_reader, tasks>>
     ELSE IF message.data[1] = AudioKind
     THEN /\ Len(opus_reader) < MaxBytes
          /\ opus_reader' = opus_reader \o Tail(message.data)
          /\ UNCHANGED <<done, tasks>>
     ELSE UNCHANGED <<done, opus_reader, tasks>>
  /\ UNCHANGED <<opus_writer, inbox, srv_seen>>
  /\ UNCHANGED <<is_recording, is_speaking, all_pcm_data, output_queue, pcm_count>>
  /\ UNCHANGED <<segVars, orchVars, asrVars, startVars, genVars, micVars, streamVars, connVars, resampleVars, textVars>>

\* the samples one read_pcm returns: the next n samples of the decoded
\* stream, each named by its position in the stream
ReadPcm(n) ==
  [i \in 1..n |-> pcm_count + i]

\* a slip that queues whatever is at hand, aligned or not
FramesOfUnaligned(data) ==
  IF data = <<>> THEN <<>> ELSE <<data>>

\* the whole frames at the head of data: while len(all_pcm_data) >= frame_size
RECURSIVE FramesOf(_)
FramesOf(data) ==
  IF Len(data) >= FrameSize
  THEN <<SubSeq(data, 1, FrameSize)>> \o FramesOf(SubSeq(data, FrameSize + 1, Len(data)))
  ELSE <<>>

\* one round of _decoder_loop: read_pcm returns n samples (none when nothing
\* was received); they are joined to the samples held back, every whole
\* frame is queued for playback and the rest is held back
DecoderLoop(n) ==
  /\ tasks["decoder"] = "running"
  /\ n > 0 => opus_reader # <<>>
  /\ pcm_count + n <= MaxPcm
  /\ pcm_count' = pcm_count + n
  /\ IF n > 0
     THEN LET data == all_pcm_data \o ReadPcm(n)
              frames == FramesOf(data)
          IN  /\ is_speaking' = TRUE
              /\ output_queue' = output_queue \o frames
              /\ all_pcm_data' = SubSeq(data, Len(frames) * FrameSize + 1, Len(data))
              /\ opus_reader' = <<>>
     ELSE /\ is_speaking' = IF is_speaking /\ Len(output_queue) = 0
                            THEN FALSE ELSE is_speaking
          /\ UNCHANGED <<output_queue, all_pcm_data, opus_reader>>
  /\ tasks' = [tasks EXCEPT !["decoder"] = AfterRound(done)]
  /\ UNCHANGED is_recording
  /\ UNCHANGED <<opus_writer, done, inbox, srv_seen>>
  /\ UNCHANGED <<segVars, orchVars, asrVars, startVars, genVars, micVars, streamVars, connVars, resampleVars, textVars>>

\* _on_audio_output: the speaker callback takes the oldest queued chunk
Playback ==
  /\ output_queue # <<>>
  /\ output_queue' = Tail(output_queue)
  /\ UNCHANGED <<tasks, is_recording, is_speaking, all_pcm_data, pcm_count>>
  /\ UNCHANGED <<segVars, orchVars, asrVars, startVars, genVars, micVars, streamVars, resampleVars, wireVars, textVars, connVars>>

\* the loops that call the codec: read_bytes in _queue_loop, read_pcm in
\* _decoder_loop
CodecLoops == {"queue", "decoder"}

\* the codec call of a loop raises: neither loop catches it, the task ends
\* with the exception and _done is left as it is
CodecError(l) ==
  /\ tasks[l] = "running"
  /\ tasks' = [tasks EXCEPT ![l] = "ended"]
  /\ UNCHANGED <<is_recording, is_speaking, all_pcm_data, output_queue, pcm_count>>
  /\ UNCHANGED <<segVars, orchVars, asrVars, startVars, genVars, micVars, streamVars, resampleVars, wireVars, textVars, connVars>>

\* the finally clause of MimirClient.start: _done is set, recording is off,
\* every task is cancelled and the WebSocket is closed
Shutdown ==
  /\ \A l \in Loops : tasks[l] # "none"
  /\ \E l \in Loops : tasks[l] = "running"
  /\ done' = TRUE
  /\ is_recording' = FALSE
  /\ tasks' = [l \in Loops |-> "ended"]
  /\ UNCHANGED <<is_speaking, all_pcm_data, output_queue, pcm_count>>
  /\ UNCHANGED <<opus_writer, opus_reader, inbox, srv_seen>>
  /\ UNCHANGED <<segVars, orchVars, asrVars, startVars, genVars, micVars, streamVars, resampleVars, textVars, connVars>>

\* a text-mode client sends a JSON text to the server
ClientSendsText(j) ==
  /\ Open
  /\ Len(inbox) < MaxInbox
  /\ j = "text" => total_requests + PendingTexts < MaxRequests
  /\ inbox' = Append(inbox, TextMessage(j))
  /\ late' = Append(late, InTurn)
  /\ UNCHANGED <<opus_writer, opus_reader, done, srv_seen>>
  /\ UNCHANGED <<handler, active_connections, total_requests, peers>>
  /\ UNCHANGED <<segVars, orchVars, asrVars, startVars, genVars, micVars, streamVars, clientVars, resampleVars, textVars>>

\* a text-mode client sends {"type": "text", "data": content}
ClientSendsUserText(content) ==
  /\ Open
  /\ Len(inbox) < MaxInbox
  /\ total_requests + PendingTexts < MaxRequests
  /\ inbox' = Append(inbox, UserTextMessage(content))
  /\ late' = Append(late, InTurn)
  /\ UNCHANGED <<opus_writer, opus_reader, done, srv_seen>>
  /\ UNCHANGED <<handler, active_connections, total_requests, peers>>
  /\ UNCHANGED <<segVars, orchVars, asrVars, startVars, genVars, micVars, streamVars, clientVars, resampleVars, textVars>>

\* the handler of another connection enters _handle_text_input with a text
\* of its own client: the request is counted; the client, the payload and
\* the response of that turn are locals of that call
PeerTextInput(content) ==
  /\ peers > 0
  /\ total_requests + PendingTexts < MaxRequests
  /\ total_requests' = total_requests + 1
  /\ srv_asked' = Append(srv_asked, Asked(PeerConnection, content))
  /\ UNCHANGED <<srv_pc, ws_out, srv_text, srv_prompt>>
  /\ UNCHANGED <<handler, active_connections, peers, late>>
  /\ UNCHANGED <<segVars, orchVars, asrVars, startVars, genVars, micVars, streamVars, clientVars, resampleVars, wireVars>>

\* any client sends a binary message to the server
ClientSendsBinary(d) ==
  /\ Open
  /\ Len(inbox) < MaxInbox
  /\ inbox' = Append(inbox, BinaryMessage(d))
  /\ late' = Append(late, InTurn)
  /\ UNCHANGED <<opus_writer, opus_reader, done, srv_seen>>
  /\ UNCHANGED <<handler, active_connections, total_requests, peers>>
  /\ UNCHANGED <<segVars, orchVars, asrVars, startVars, genVars, micVars, streamVars, clientVars, resampleVars, textVars>>

\* the ways the client's end goes away: a close frame, or a transport error
Endings == {"CLOSE", "ERROR"}

\* the connection goes away at the client's end: the handler's loop will be
\* handed a close or an error after the messages already received
ClientEnds(t) ==
  /\ Open
  /\ inbox' = Append(inbox, [type |-> t, json |-> "", data |-> <<>>])
  /\ late' = Append(late, InTurn)
  /\ UNCHANGED <<opus_writer, opus_reader, done, srv_seen>>
  /\ UNCHANGED <<handler, active_connections, total_requests, peers>>
  /\ UNCHANGED <<segVars, orchVars, asrVars, startVars, genVars, micVars, streamVars, clientVars, resampleVars, textVars>>

\* handle_chat up to its loop: the WebSocket is prepared and the connection
\* is counted
Accept ==
  /\ handler \in {"none", "ended"}
  /\ handler' = "running"
  /\ active_connections' = active_connections + 1
  /\ inbox' = <<>>
  /\ late' = <<>>
  /\ ws_out' = <<>>
  /\ UNCHANGED <<total_requests, peers, srv_pc, srv_text, srv_prompt, srv_asked>>
  /\ UNCHANGED <<opus_writer, opus_reader, done, srv_seen>>
  /\ UNCHANGED <<segVars, orchVars, asrVars, startVars, genVars, micVars, streamVars, clientVars, resampleVars>>

\* handle_chat of another connection reaches its loop
PeerAccepted ==
  /\ peers < MaxPeers
  /\ peers' = peers + 1
  /\ active_connections' = active_connections + 1
  /\ UNCHANGED <<handler, total_requests, late>>
  /\ UNCHANGED <<segVars, orchVars, asrVars, startVars, genVars, micVars, streamVars, clientVars, resampleVars, wireVars, textVars>>

\* handle_chat of another connection leaves through its finally clause
PeerEnds ==
  /\ peers > 0
  /\ peers' = peers - 1
  /\ active_connections' = active_connections - 1
  /\ UNCHANGED <<handler, total_requests, late>>
  /\ UNCHANGED <<segVars, orchVars, asrVars, startVars, genVars, micVars, streamVars, clientVars, resampleVars, wireVars, textVars>>

\* a slip that sends the first status before the ack
BeginTextTurnStatusFirst ==
  <<"status", "ack">>

\* _handle_text_input up to the first read of the generation stream: the ack,
\* then the status "Thinking..." inside the OllamaClient context
BeginTextTurn ==
  <<"ack", "status">>

\* send_json({"type": "pong", "data": "ok"})
PingReply ==
  <<"pong">>

\* _process_message(ws, message) up to its first suspension point
ProcessMessage(j, content) ==
  IF j = "text"
  THEN /\ total_requests' = total_requests + 1
       /\ ws_out' = BeginTextTurn
       /\ srv_pc' = "gen"
       /\ srv_text' = <<>>
       /\ srv_prompt' = GeneratePayload(content, SystemPrompt)
       /\ srv_asked' = Append(srv_asked, Asked(OwnConnection, content))
  ELSE IF j = "ping"
  THEN /\ ws_out' = PingReply
       /\ UNCHANGED <<srv_pc, srv_text, srv_prompt, srv_asked, total_requests>>
  ELSE \* not JSON, or an unknown type: logged, nothing is sent
       /\ ws_out' = <<>>
       /\ UNCHANGED <<srv_pc, srv_text, srv_prompt, srv_asked, total_requests>>

\* a slip that takes the newest message first
NextMessageNewest(q) ==
  Len(q)

\* async for msg in ws: the messages are taken in the order they arrived
NextMessage(q) ==
  1

\* q without its i-th message
Without(q, i) ==
  SubSeq(q, 1, i - 1) \o SubSeq(q, i + 1, Len(q))

\* a slip that leaves the counter alone
ConnectionEndsUncounted ==
  /\ handler' = "ended"
  /\ UNCHANGED active_connections

\* the finally clause of handle_chat
ConnectionEnds ==
  /\ handler' = "ended"
  /\ active_connections' = active_connections - 1

\* handle_chat: the connection's loop takes the next message
HandleMessage ==
  /\ handler = "running"
  /\ srv_pc = "idle"
  /\ inbox # <<>>
  /\ LET i == NextMessage(inbox)
         msg == inbox[i]
     IN  IF msg.type = "TEXT"
         THEN /\ ProcessMessage(msg.json, msg.data)
              /\ inbox' = Without(inbox, i)
              /\ late' = Without(late, i)
              /\ UNCHANGED <<srv_seen, handler, active_connections>>
         ELSE IF msg.type = "BINARY"
         THEN LET data == msg.data
                  k == IF Len(data) > 0 THEN data[1] ELSE NoKind
              IN  /\ srv_seen' = [kind |-> k,
                                  audio_data |-> IF k = AudioKind THEN Tail(data) ELSE <<>>]
                  /\ ws_out' = <<>>
                  /\ inbox' = Without(inbox, i)
                  /\ late' = Without(late, i)
                  /\ UNCHANGED <<srv_pc, srv_text, srv_prompt, srv_asked, handler, active_connections, total_requests>>
         ELSE \* a close ends the loop; an error is logged and the next
              \* receive of the closed socket ends the loop
              /\ ConnectionEnds
              /\ inbox' = <<>>
              /\ late' = <<>>
              /\ ws_out' = <<>>
              /\ UNCHANGED <<srv_pc, srv_text, srv_prompt, srv_asked, srv_seen, total_requests>>
  /\ UNCHANGED peers
  /\ UNCHANGED <<opus_writer, opus_reader, done>>
  /\ UNCHANGED <<segVars, orchVars, asrVars, startVars, genVars, micVars, streamVars, clientVars, resampleVars>>

\* a send of the handler raises because the connection has gone away at the
\* client's end: the send in flight (the pong, the ack, or the next message
\* of the turn under way) raises, the error message that the except clauses
\* try to send raises as well, and handle_chat leaves through its except and
\* finally clauses
SendRaises ==
  /\ handler = "running"
  /\ ~Open
  /\ IF InTurn
     THEN UNCHANGED <<total_requests, ws_out, srv_asked>>
     ELSE /\ inbox[1].type = "TEXT"
          /\ inbox[1].json \in {"text", "ping"}
          /\ total_requests' = IF inbox[1].json = "text"
                                THEN total_requests + 1 ELSE total_requests
          /\ srv_asked' = IF inbox[1].json = "text"
                            THEN Append(srv_asked, Asked(OwnConnection, inbox[1].data))
                            ELSE srv_asked
          /\ ws_out' = <<>>
  /\ ConnectionEnds
  /\ srv_pc' = "idle"
  /\ srv_text' = <<>>
  /\ srv_prompt' = NoPayload
  /\ inbox' = <<>>
  /\ late' = <<>>
  /\ UNCHANGED peers
  /\ UNCHANGED <<opus_writer, opus_reader, done, srv_seen>>
  /\ UNCHANGED <<segVars, orchVars, asrVars, startVars, genVars, micVars, streamVars, clientVars, resampleVars>>

\* the generation stream yields a token: response_text += token
ServerGenerationYields(token) ==
  /\ srv_pc = "gen"
  /\ Len(srv_text) < MaxFrags
  /\ srv_text' = srv_text \o token
  /\ UNCHANGED <<srv_pc, ws_out, srv_prompt, srv_asked>>
  /\ UNCHANGED <<segVars, orchVars, asrVars, startVars, genVars, micVars, streamVars, clientVars, connVars, resampleVars, wireVars>>

\* the stream ends: the text reply and the second status are sent and the
\* synthesis is called; XTTSEngine.synthesize returns None at once for a text
\* that is empty or blank, and the turn ends with a logged warning
ServerGenerationEnds ==
  /\ srv_pc = "gen"
  /\ ws_out' = ws_out \o <<"text", "status">>
  /\ srv_pc' = IF Strip(srv_text) = <<>> THEN "idle" ELSE "tts"
  /\ srv_text' = <<>>
  /\ srv_prompt' = NoPayload
  /\ UNCHANGED srv_asked
  /\ UNCHANGED <<segVars, orchVars, asrVars, startVars, genVars, micVars, streamVars, clientVars, connVars, resampleVars, wireVars>>

\* the generation raises: except Exception sends the error
ServerGenerationRaises ==
  /\ srv_pc = "gen"
  /\ ws_out' = Append(ws_out, "error")
  /\ srv_pc' = "idle"
  /\ srv_text' = <<>>
  /\ srv_prompt' = NoPayload
  /\ UNCHANGED srv_asked
  /\ UNCHANGED <<segVars, orchVars, asrVars, startVars, genVars, micVars, streamVars, clientVars, connVars, resampleVars, wireVars>>

\* what the synthesis stage can come to: audio, None (synthesize caught the
\* engine's exception), or an exception raised in the stage itself
SynthesisResults == {"audio", "none", "raised"}

\* the synthesis stage ends: audio is sent, None is only logged, an
\* exception sends the error
ServerSynthesisReturns(r) ==
  /\ srv_pc = "tts"
  /\ ws_out' = IF r = "audio" THEN Append(ws_out, "audio")
               ELSE IF r = "raised" THEN Append(ws_out, "error")
               ELSE ws_out
  /\ srv_pc' = "idle"
  /\ UNCHANGED <<srv_text, srv_prompt, srv_asked>>
  /\ UNCHANGED <<segVars, orchVars, asrVars, startVars, genVars, micVars, streamVars, clientVars, connVars, resampleVars, wireVars>>

NextWire ==
  \/ ClientStart
  \/ \E bytes \in EncodedChunks : EncoderProduces(bytes)
  \/ \E send_ok \in BOOLEAN : QueueLoop(send_ok)
  \/ \E message \in ServerFrames : RecvLoop(message)
  \/ \E d \in BinaryFrames : ClientSendsBinary(d)
  \/ Accept
  \/ HandleMessage

SpecWire == Init /\ [][NextWire]_vars

NextText ==
  \/ Accept
  \/ \E j \in JsonTypes : ClientSendsText(j)
  \/ HandleMessage
  \/ \E token \in Fragments : ServerGenerationYields(token)
  \/ ServerGenerationEnds
  \/ ServerGenerationRaises
  \/ \E r \in SynthesisResults : ServerSynthesisReturns(r)

SpecText == Init /\ [][NextText]_vars

\* text turns followed by what was asked: the connection's client sends
\* texts, other connections come, ask and go, and the handler answers
NextAsk ==
  \/ Accept
  \/ PeerAccepted
  \/ PeerEnds
  \/ \E content \in UserTexts : ClientSendsUserText(content)
  \/ \E content \in UserTexts : PeerTextInput(content)
  \/ HandleMessage
  \/ \E token \in Fragments : ServerGenerationYields(token)
  \/ ServerGenerationEnds
  \/ ServerGenerationRaises
  \/ \E r \in SynthesisResults : ServerSynthesisReturns(r)

SpecAsk == Init /\ [][NextAsk]_vars

\* a client session: the three loops with the audio callbacks, the messages
\* the connection hands to the receive loop, and the server's handler
\* taking what the client sent
NextClient ==
  \/ Accept
  \/ ClientStart
  \/ \E bytes \in EncodedChunks : EncoderProduces(bytes)
  \/ \E send_ok \in BOOLEAN : QueueLoop(send_ok)
  \/ \E message \in ServerFrames : RecvLoop(message)
  \/ \E n \in 0..MaxRead : DecoderLoop(n)
  \/ Playback
  \/ \E l \in CodecLoops : CodecError(l)
  \/ Shutdown
  \/ HandleMessage

SpecClient == Init /\ [][NextClient]_vars

\* a client session followed block by block of the microphone: the audio
\* thread's two callbacks beside the three loops of the event loop
NextDuplex ==
  \/ Accept
  \/ ClientStart
  \/ OnAudioInput
  \/ \E bytes \in EncodedChunks : AppendPcm(bytes)
  \/ \E send_ok \in BOOLEAN : QueueLoop(send_ok)
  \/ \E message \in ServerFrames : RecvLoop(message)
  \/ \E n \in 0..MaxRead : DecoderLoop(n)
  \/ Playback
  \/ Shutdown
  \/ HandleMessage

SpecDuplex == Init /\ [][NextDuplex]_vars

\* the loops poll every millisecond, the audio callbacks are periodic and the
\* server's handler is always ready to take a message: none of them waits
\* forever.  Nothing makes the connection hand over a message, the codec
\* fail or the user shut the client down.
SpecClientLive ==
  /\ SpecClient
  /\ WF_vars(\E send_ok \in BOOLEAN : QueueLoop(send_ok))
  /\ WF_vars(\E n \in 0..MaxRead : DecoderLoop(n))
  /\ WF_vars(\E bytes \in EncodedChunks : EncoderProduces(bytes))
  /\ WF_vars(Playback)
  /\ WF_vars(HandleMessage)

\* the binary messages of a session: an empty one, one of an unknown kind,
\* an audio frame
SessionFrames ==
  {<<>>, <<2>>, <<AudioKind, 2>>}

\* the server with its connections: every message a client can send, every
\* way a connection ends
NextServer ==
  \/ Accept
  \/ PeerAccepted
  \/ PeerEnds
  \/ \E j \in JsonTypes : ClientSendsText(j)
  \/ \E d \in SessionFrames : ClientSendsBinary(d)
  \/ \E t \in Endings : ClientEnds(t)
  \/ HandleMessage
  \/ SendRaises
  \/ \E token \in Fragments : ServerGenerationYields(token)
  \/ ServerGenerationEnds
  \/ ServerGenerationRaises
  \/ \E r \in SynthesisResults : ServerSynthesisReturns(r)

SpecServer == Init /\ [][NextServer]_vars

(***************************************************************************)
(* Properties                                                              *)
(***************************************************************************)
\* a process_conversation_turn call that is past the _processing guard
InFlight(c) ==
  kind[c] = "turn" /\ pc[c] \in {"asr", "gen", "tts"}

\* the step is a call of process_conversation_turn by c
TurnCalled(c) ==
  pc[c] = "idle" /\ kind'[c] = "turn"

\* s holds nothing but whitespace (None, "" and "  " alike)
IsBlank(s) ==
  \A i \in 1..Len(s) : s[i] = SP

\* s without its leading and trailing whitespace
Trimmed(s) ==
  LET idx == {i \in 1..Len(s) : s[i] # SP}
  IN  IF idx = {} THEN <<>>
      ELSE SubSeq(s, CHOOSE i \in idx : \A j \in idx : i <= j,
                     CHOOSE i \in idx : \A j \in idx : j <= i)

RECURSIVE Flatten(_)
Flatten(fs) ==
  IF fs = <<>> THEN <<>> ELSE Head(fs) \o Flatten(Tail(fs))

IsPrefix(s, t) ==
  Len(s) <= Len(t) /\ SubSeq(t, 1, Len(s)) = s

\* C1: single-flight.  At most one process_conversation_turn call is past
\* the _processing guard at any time; a call that arrives while a turn is in
\* flight returns None without invoking any engine and without touching the
\* flag, the history or the audio buffer, and a dropped call never runs later
\* (it stays finished, with no engine invoked, until its caller takes the result).
SingleFlight ==
  /\ [](/\ Cardinality({c \in Calls : InFlight(c)}) <= 1
        /\ \A c \in Calls : outcome[c] = "dropped" => (pc[c] = "done" /\ called[c] = {}))
  /\ [][\A c \in Calls :
          (TurnCalled(c) /\ \E d \in Calls : InFlight(d))
            => /\ outcome'[c] = "dropped"
               /\ called'[c] = {}
               /\ UNCHANGED <<processing, history, audio_buffer>>]_vars

\* C1 witness: one turn is in flight and a second call has been dropped
SingleFlightWitness ==
  \E c, d \in Calls : InFlight(c) /\ pc[c] = "gen" /\ outcome[d] = "dropped"

\* C2: when the transcription yields no text (the engine raises, or returns an
\* empty or whitespace-only text) the turn ends there: no history entry is
\* appended and neither the generation nor the synthesis engine is invoked.
EmptyTranscriptionIsNoOp ==
  /\ [](\A c \in Calls :
          outcome[c] \in {"no_text", "no_trigger"}
            => called[c] \cap {"generation", "synthesis"} = {})
  /\ [][\A c \in Calls, raw \in RawTexts, ok \in BOOLEAN :
          (TranscriptionReturns(c, raw, ok) /\ (~ok \/ IsBlank(raw)))
            => /\ history' = history
               /\ outcome'[c] = "no_text"
               /\ called'[c] = {"transcription"}]_vars

\* C2 witness: a turn whose transcription was invoked ended without text
EmptyTranscriptionWitness ==
  \E c \in Calls : pc[c] = "done" /\ outcome[c] = "no_text" /\ history = <<>> /\ initialized

\* C3: when the generation produces no text the turn is aborted without
\* synthesis and the history is not mutated further (no assistant entry).
EmptyGenerationLeavesHistory ==
  [][\A c \in Calls :
       (kind[c] = "turn" /\ pc[c] = "gen" /\ outcome'[c] = "no_response")
         => (history' = history /\ "synthesis" \notin called'[c])]_vars

\* C4: a turn whose stream ends normally returns trim(f1 + ... + fn), the
\* fragments in stream order, and appends exactly two entries in this order:
\* the user entry when the generation begins, the assistant entry with the
\* same trimmed text when the stream ends; in between it appends nothing.
AccumulatedResponse ==
  [][\A c \in Calls :
       /\ (pc[c] # "gen" /\ pc'[c] = "gen" /\ kind'[c] \in {"turn", "generate"})
            => history' = history \o <<[role |-> "user", content |-> user_text'[c]]>>
       /\ (\E token \in Fragments : GenerationYields(c, token)) => history' = history
       /\ GenerationEnds(c)
            => LET full == Trimmed(Flatten(frags[c]))
               IN  /\ response_text'[c] = full
                   /\ history' = history \o <<[role |-> "assistant", content |-> full]>>]_vars

\* C4 witness: the stream of a turn yielded "b " then "a" and ended; the
\* response is "b a" and the history is the turn's own two entries
AccumulatedResponseWitness ==
  \E c \in Calls :
    /\ kind[c] = "turn" /\ pc[c] = "tts"
    /\ response_text[c] = <<"b", SP, "a">>
    /\ history = <<[role |-> "user", content |-> user_text[c]],
                   [role |-> "assistant", content |-> response_text[c]]>>

\* C5: reset_conversation empties the history and leaves the orchestrator
\* initialized with its engines; with no turn in flight the next call is
\* admitted, and a turn that starts on the empty history completes with
\* exactly its own two entries.
ResetKeepsSessionUsable ==
  [][/\ ResetConversation
          => /\ history' = <<>>
             /\ UNCHANGED <<initialized, running, config, processing>>
     /\ \A c \in Calls :
          /\ (TurnCalled(c) /\ ~\E d \in Calls : InFlight(d))
               => outcome'[c] # "dropped"
          /\ (kind[c] = "turn" /\ pc[c] = "asr" /\ pc'[c] = "gen" /\ history = <<>>)
               => history' = <<[role |-> "user", content |-> user_text'[c]]>>
          /\ (kind[c] = "turn" /\ GenerationEnds(c)
                /\ history = <<[role |-> "user", content |-> user_text[c]]>>)
               => history' = <<[role |-> "user", content |-> user_text[c]],
                               [role |-> "assistant", content |-> response_text'[c]]>>]_vars

\* C5 witness: one turn has completed, the history was reset (a call is only
\* made on a history with room for its two entries, MaxHist), and the turn
\* that followed was admitted and holds exactly its own two entries
ResetWitness ==
  \E c, d \in Calls :
    /\ pc[c] = "done" /\ outcome[c] = "audio"
    /\ kind[d] = "turn" /\ pc[d] = "tts"
    /\ initialized /\ running
    /\ history = <<[role |-> "user", content |-> user_text[d]],
                   [role |-> "assistant", content |-> response_text[d]]>>

\* C6: a reset during a turn's generation cancels the turn's effect on the
\* history: when the stream of a call ends on a history that was emptied
\* meanwhile, the history is still empty afterwards.
ResetCancelsInFlightTurn ==
  [][\A c \in Calls :
       (pc[c] = "gen" /\ pc'[c] # "gen" /\ history = <<>>) => history' = <<>>]_vars

\* C7: the session stays usable after any turn outcome.  _processing is set
\* exactly while a turn is in flight, so it is false whenever every turn has
\* returned or raised; a call made when no turn is in flight is admitted; the
\* step that ends a turn clears the flag; a dropped call leaves it alone.
SessionStaysUsable ==
  /\ [](processing <=> \E c \in Calls : InFlight(c))
  /\ [][\A c \in Calls :
          /\ (TurnCalled(c) /\ ~\E d \in Calls : InFlight(d)) => outcome'[c] # "dropped"
          /\ (kind'[c] = "turn" /\ pc[c] # "done" /\ pc'[c] = "done" /\ outcome'[c] # "dropped")
               => ~processing'
          /\ (TurnCalled(c) /\ outcome'[c] = "dropped") => (processing /\ processing')]_vars

\* C7 witness: a turn ended on an empty generation and the next call was admitted
SessionUsableWitness ==
  \E c, d \in Calls :
    /\ pc[c] = "done" /\ outcome[c] = "no_response"
    /\ InFlight(d)

\* C8: a step shortens or clears the history only if it is reset_conversation
\* or a chat with reset_history=True; a failing generation and a failing
\* synthesis leave the history exactly as it was.
HistoryOnlyClearedByReset ==
  [][/\ \/ IsPrefix(history, history')
        \/ ResetConversation
        \/ \E c \in Calls, text \in DirectTexts : AdapterGenerate(c, text)
     /\ \A c \in Calls :
          (GenerationFails(c) \/ SynthesisReturns(c, FALSE)) => history' = history]_vars

\* C8 witness: a turn whose generation failed (its response ends with the
\* apology) and whose user entry is still the last entry of the history
HistoryKeptWitness ==
  \E c \in Calls :
    /\ kind[c] = "turn" /\ pc[c] = "tts"
    /\ response_text[c] = Apology
    /\ history = <<[role |-> "user", content |-> user_text[c]]>>

\* the step is a process_audio call on a started engine
AudioProcessed ==
  running /\ \E chunk \in SegChunks : ProcessAudio(chunk)

\* C9: buffer-full trigger.  Whenever the buffered duration after the append
\* is >= chunk_length, process_audio returns true, whatever the chunk's energy,
\* the speech-active flag and the silence timer, and before the too-short guard.
BufferFullTrigger ==
  [][(AudioProcessed /\ BufferDuration(audio_buffer') >= config.chunk_length)
       => last_trigger']_vars

\* C9 witness: the trigger fired on a buffer that is full and still too short,
\* with speech never active
BufferFullWitness ==
  /\ running /\ last_trigger /\ ~is_speech_active
  /\ BufferDuration(audio_buffer) >= config.chunk_length
  /\ BufferDuration(audio_buffer) < config.min_speech_duration

\* C10: too-short guard.  Whenever the buffered duration after the append is
\* below min_speech_duration and below chunk_length, process_audio returns
\* false, whatever the chunk's energy and the voice-activity state.
TooShortGuard ==
  [][(/\ AudioProcessed
      /\ BufferDuration(audio_buffer') < config.min_speech_duration
      /\ BufferDuration(audio_buffer') < config.chunk_length)
       => ~last_trigger']_vars

\* C10 witness: audio is buffered, less than min_speech_duration of it, and
\* the last process_audio did not trigger
TooShortWitness ==
  /\ running /\ ~last_trigger
  /\ audio_buffer # <<>>
  /\ BufferDuration(audio_buffer) < config.min_speech_duration
  /\ BufferDuration(audio_buffer) < config.chunk_length

\* the step is a chunk fed by c to a started ASR
ChunkFed(c) ==
  running /\ \E chunk \in AsrChunks : FeedChunk(c, chunk)

\* the silence rule fired in this step: process_audio returned true on a
\* buffer that is not full
SilenceTriggered(c) ==
  ChunkFed(c) /\ last_trigger' /\ BufferDuration(audio_buffer') < config.chunk_length

\* C11: silence trigger.  process_audio returns true on a buffer that is not
\* full only when the silence timer has run for at least silence_duration, and
\* a silence run finalizes exactly once: no second chunk of the run (the timer
\* still pending, the last process_audio already true) makes process_audio
\* return true, and no two transcriptions started by fed chunks hold the same
\* audio.
SilenceFinalizesOnce ==
  /\ [](\A c, d \in Calls :
          (c # d /\ pc[c] = "asr" /\ pc[d] = "asr"
             /\ kind[c] = "feed" /\ kind[d] = "feed")
            => ~IsPrefix(audio_to_transcribe[c], audio_to_transcribe[d]))
  /\ [][\A c \in Calls :
          SilenceTriggered(c)
            => /\ silence_start # NoTime
               /\ now - silence_start >= config.silence_duration
               /\ ~last_trigger]_vars

\* the buffered duration is past the too-short guard and short of full: the
\* chunk is processed by the voice-activity step
InVadRange(buf) ==
  /\ BufferDuration(buf) >= config.min_speech_duration
  /\ BufferDuration(buf) < config.chunk_length

\* C12: a chunk with RMS above vad_threshold that reaches the voice-activity
\* step marks speech active, clears the silence timer and does not trigger; a
\* timer is pending after the step only if the chunk was unvoiced, it starts
\* at the current time when none was pending, and the step triggers only on
\* the timer it found pending, run for at least silence_duration: the silence
\* that triggers is continuous.
VoicedChunkRestartsSilence ==
  [][\A c \in Calls, chunk \in AsrChunks :
       (running /\ FeedChunk(c, chunk) /\ InVadRange(audio_buffer'))
         => /\ chunk.rms > config.vad_threshold
                 => (is_speech_active' /\ silence_start' = NoTime /\ ~last_trigger')
            /\ silence_start' # NoTime => chunk.rms <= config.vad_threshold
            /\ (silence_start' # NoTime /\ silence_start = NoTime) => silence_start' = now
            /\ last_trigger'
                 => (/\ silence_start # NoTime
                     /\ silence_start' = silence_start
                     /\ now - silence_start >= config.silence_duration)]_vars

\* C12 witness: voiced, silent, voiced, silent chunks were fed; the second
\* silent chunk found no timer pending and started one at its own time
VoicedRestartWitness ==
  /\ audio_buffer = <<MinSpeechDuration, 1, MinSpeechDuration, 1>>
  /\ is_speech_active /\ ~last_trigger
  /\ now >= SilenceDuration /\ silence_start = now

\* C13: finalize is atomic with respect to appends.  When transcribe_buffer
\* clears the buffer, what it clears is what it copied: every chunk appended
\* after the copy was taken is still in the buffer afterwards.
FinalizeIsAtomic ==
  [][\A c \in Calls, raw \in RawTexts, ok \in BOOLEAN :
       EngineReturns(c, raw, ok)
         => audio_buffer' = SubSeq(audio_buffer, Len(audio_to_transcribe[c]) + 1,
                                   Len(audio_buffer))]_vars

\* the step is get_transcription called by c on an empty buffer
EmptyFinalize(c) ==
  GetTranscription(c) /\ audio_buffer = <<>>

\* what C14 promises of such a step: None is returned, nothing is raised, the
\* engine is not called and the segmenter is left as it was
ReturnsNoneUntouched(c) ==
  /\ pc'[c] = "done"
  /\ outcome'[c] = "no_text"
  /\ called'[c] = {}
  /\ UNCHANGED <<audio_buffer, silence_start, is_speech_active, audio_to_transcribe>>

Nearest(x, y) ==
  {k \in 0..(x + y) : 2 * y * k - y <= 2 * x /\ 2 * x <= 2 * y * k + y}

\* C15: resample identity law.  With from_sr = to_sr the call returns the
\* input sequence unchanged, on the Whisper side and on the XTTS side.
ResampleIdentity ==
  (resampled.status # "none" /\ from_sr = to_sr)
    => resampled = [status |-> "returned", samples |-> audio]

\* C15 witness: the XTTS-side resampler returned a non-constant sequence
\* unchanged for equal rates
ResampleIdentityWitness ==
  /\ side = "xtts" /\ from_sr = to_sr
  /\ resampled.status = "returned"
  /\ Len(audio) >= 2 /\ audio[1] # audio[2]
  /\ resampled.samples = audio

\* C16: for distinct rates the length of the output differs from
\* round(n * to_sr / from_sr) by at most one sample.
ResampleLength ==
  (resampled.status = "returned" /\ from_sr # to_sr)
    => \A k \in Nearest(Len(audio) * to_sr, from_sr) :
         /\ Len(resampled.samples) - k <= 1
         /\ k - Len(resampled.samples) <= 1

\* C16 witness: a downsampling whose output is one sample shorter than the
\* rounded length
ResampleLengthWitness ==
  /\ resampled.status = "returned" /\ from_sr > to_sr
  /\ Len(audio) >= 2
  /\ \E k \in Nearest(Len(audio) * to_sr, from_sr) : Len(resampled.samples) = k - 1

\* C17: the resampler has no error outcome: no call raises, and the empty
\* sequence is resampled to the empty sequence.
ResampleNeverRaises ==
  /\ resampled.status # "raised"
  /\ (resampled.status # "none" /\ audio = <<>>)
       => resampled = [status |-> "returned", samples |-> <<>>]

\* C18: wire framing.  Every binary message _queue_loop sends is the byte 1
\* followed by the non-empty codec bytes it read, and it sends nothing when it
\* read nothing; _recv_loop hands the bytes after the first to the decoder
\* exactly when the message is binary, not empty and of kind 1, and otherwise
\* leaves the decoder as it is; the server takes the first byte as the kind,
\* extracts a payload only for kind 1, and no binary message changes the
\* decoder, the audio buffer or the state of the connection's handler.
WireFraming ==
  [][/\ \A send_ok \in BOOLEAN :
          QueueLoop(send_ok)
            => \/ inbox' = inbox
               \/ /\ opus_writer # <<>>
                  /\ Len(inbox') = Len(inbox) + 1
                  /\ LET m == inbox'[Len(inbox')]
                     IN  /\ m.type = "BINARY"
                         /\ Len(m.data) >= 2
                         /\ m.data[1] = 1
                         /\ SubSeq(m.data, 2, Len(m.data)) = opus_writer
     /\ \A message \in ServerFrames :
          RecvLoop(message)
            => IF message.type = "BINARY" /\ message.data # <<>> /\ Head(message.data) = 1
               THEN opus_reader' = opus_reader \o Tail(message.data)
               ELSE opus_reader' = opus_reader
     /\ (HandleMessage /\ Head(inbox).type = "BINARY")
          => LET data == Head(inbox).data
             IN  /\ data # <<>> => srv_seen'.kind = Head(data)
                 /\ srv_seen'.audio_data =
                      (IF data # <<>> /\ Head(data) = 1 THEN Tail(data) ELSE <<>>)
                 /\ UNCHANGED <<opus_reader, audio_buffer, srv_pc, srv_text>>
                 /\ ws_out' = <<>>]_vars

\* C18 witness: the server took the payload of a framed message of the
\* client's, and the client's decoder holds the payload of a kind-1 message
WireFramingWitness ==
  /\ srv_seen.kind = 1 /\ srv_seen.audio_data = <<2, 2>>
  /\ opus_reader # <<>>
  /\ ~done

\* the types a complete text turn sends, in order
ReplyOrder ==
  <<"ack", "status", "text", "status", "audio">>

\* the messages of the current turn before its error message, if it has one
BeforeError(out) ==
  IF out # <<>> /\ out[Len(out)] = "error" THEN SubSeq(out, 1, Len(out) - 1) ELSE out

\* C19: text-session message order.  The messages sent for a text message
\* are, in order, ack, status, text, status, audio, cut short at any point at
\* or after the first status; an error message comes only last; the ack is
\* sent first, once, when the text message is taken; a turn whose synthesis
\* gave audio has sent the five messages.
TextSessionOrder ==
  /\ []((ws_out # <<>> /\ ws_out # <<"pong">>)
          => /\ ws_out[1] = "ack"
             /\ IsPrefix(BeforeError(ws_out), ReplyOrder)
             /\ \A i \in 1..(Len(ws_out) - 1) : ws_out[i] # "error"
             /\ (ws_out[Len(ws_out)] = "audio" => ws_out = ReplyOrder))
  /\ [][/\ (HandleMessage /\ Head(inbox) = TextMessage("text"))
             => (Len(ws_out') >= 2 /\ ws_out'[1] = "ack" /\ ws_out'[2] = "status")
        /\ (srv_pc # "idle" /\ ws_out' # ws_out)
             => (IsPrefix(ws_out, ws_out') /\ "error" \notin {ws_out[i] : i \in 1..Len(ws_out)})]_vars

\* C19 witness: a text turn has sent its five messages and ended
TextSessionWitness ==
  srv_pc = "idle" /\ ws_out = ReplyOrder

\* C20: every text turn ends with exactly one audio message or exactly one
\* error message: a turn that failed at any stage has sent one error.
TurnEndsWithAudioOrError ==
  (srv_pc = "idle" /\ ws_out # <<>> /\ ws_out[1] = "ack")
    => /\ ws_out[Len(ws_out)] \in {"audio", "error"}
       /\ Cardinality({i \in 1..Len(ws_out) : ws_out[i] \in {"audio", "error"}}) = 1

\* the handler takes the message msg of its connection in this step
Handles(msg) ==
  HandleMessage /\ inbox[1] = msg

\* C21: liveness ping.  The handler takes the messages of a connection in the
\* order they arrived, and the step that takes a ping sends exactly one pong,
\* leaves total_requests alone and starts no turn (the handler stays in its
\* loop, no engine is called).
PingPong ==
  [][/\ (HandleMessage /\ handler' = "running") => inbox' = Tail(inbox)
     /\ Handles(TextMessage("ping"))
          => /\ ws_out' = <<"pong">>
             /\ total_requests' = total_requests
             /\ srv_pc' = "idle"
             /\ srv_text' = srv_text]_vars

\* C21 witness: a ping was answered after a text turn was counted, and the
\* next ping waits behind another message
PingPongWitness ==
  /\ handler = "running"
  /\ srv_pc = "idle"
  /\ ws_out = <<"pong">>
  /\ total_requests > 0
  /\ Len(inbox) = 2
  /\ inbox[2] = TextMessage("ping")

\* C22: a text message that arrived while a text turn of its connection was
\* in flight never starts a turn: the step that takes it counts no request
\* and leaves the handler in its loop.
LateTextIsDropped ==
  [][(Handles(TextMessage("text")) /\ late[1])
       => (srv_pc' = "idle" /\ total_requests' = total_requests)]_vars

\* C23: connection accounting.  active_connections is the number of handlers
\* in their loop, it is never negative, and every end of a handler takes
\* exactly one off it.
ConnectionAccounting ==
  /\ [](/\ active_connections = peers + (IF handler = "running" THEN 1 ELSE 0)
        /\ active_connections >= 0)
  /\ [][(handler = "running" /\ handler' = "ended")
          => active_connections' = active_connections - 1]_vars

\* C23 witness: the connection has ended while another one is still counted
ConnectionAccountingWitness ==
  handler = "ended" /\ peers = 1 /\ active_connections = 1

\* a text message that is not JSON, or a binary message that is empty or
\* whose kind byte is unknown
Malformed(msg) ==
  \/ msg.type = "TEXT" /\ msg.json = "malformed"
  \/ msg.type = "BINARY" /\ (Len(msg.data) = 0 \/ msg.data[1] # AudioKind)

\* C24: a malformed frame ends the session: the step that takes it ends the
\* handler's loop and takes the connection off the count.
MalformedFrameEndsSession ==
  [][(HandleMessage /\ Malformed(inbox[1]))
       => (handler' = "ended" /\ active_connections' = active_connections - 1)]_vars

\* every loop of the client session has stopped
AllStopped ==
  \A l \in Loops : tasks[l] = "ended"

\* C25: all loops of a client session terminate together: once one of the
\* three loops has ended, for whatever reason, eventually all three have.
LoopsTerminateTogether ==
  (\E l \in Loops : tasks[l] = "ended") ~> AllStopped

\* the samples queued for playback followed by the samples held back
Pending ==
  Flatten(output_queue) \o all_pcm_data

\* C26: playback ordering and frame alignment.  Every queued chunk has
\* frame_size samples; the queued chunks followed by the samples held back
\* are the end of the decoded stream, sample by sample in arrival order,
\* starting on a frame boundary; fewer than frame_size samples are held back;
\* the decoder loop only adds chunks at the tail of the queue.
PlaybackOrder ==
  /\ [](/\ \A i \in 1..Len(output_queue) : Len(output_queue[i]) = FrameSize
        /\ Len(all_pcm_data) < FrameSize
        /\ Pending = [i \in 1..Len(Pending) |-> pcm_count - Len(Pending) + i]
        /\ (pcm_count - Len(Pending)) % FrameSize = 0)
  /\ [][(\E n \in 0..MaxRead : DecoderLoop(n)) => IsPrefix(output_queue, output_queue')]_vars

\* C26 witness: the first frame has been played, the second is queued and
\* a sample of the third is held back
PlaybackOrderWitness ==
  /\ Len(output_queue) = 1
  /\ output_queue[1][1] = FrameSize + 1
  /\ Len(all_pcm_data) = 1

\* the stream has been fed to its end
StreamFed ==
  stream_pos = StreamEnd

\* the chunk fed in this step made process_audio return true
StreamTriggers ==
  FeedStream /\ last_trigger'

\* C27: end-to-end segmentation.  For the stream of 0.4 s of silence, 2.0 s
\* of voiced audio and 1.6 s of silence fed in real time, in chunks of 0.1 s,
\* 0.2 s or 0.4 s: no chunk triggers before the silence timer has run for
\* silence_duration, the chunk that triggers finds all the audio fed so far
\* in the buffer, and by the end of the stream process_audio has returned
\* true exactly once.
StreamFinalizesOnce ==
  /\ [](/\ triggers <= 1
        /\ StreamFed => triggers = 1)
  /\ [][StreamTriggers
          => /\ now' - silence_start' >= config.silence_duration
             /\ BufferDuration(audio_buffer') = stream_pos']_vars

\* C28: audio ingestion continues while a turn is in flight.  Every chunk
\* handed to process_conversation_turn on an initialized orchestrator with a
\* running segmenter is appended to the segmenter's buffer, behind the audio
\* already there, whether or not another turn is in flight.
IngestionContinuesDuringTurn ==
  [][\A c \in Calls, chunk \in TurnChunks :
       (StartTurn(c, chunk) /\ initialized /\ running)
         => audio_buffer' = AppendAudio(audio_buffer, chunk)]_vars

\* the step is transcribe_buffer called by c taking its copy of the buffer
CopyTaken(c) ==
  pc[c] # "asr" /\ pc'[c] = "asr"

\* C29: an utterance is handed to transcription at most once.  Whenever
\* transcribe_buffer copies the buffer for the engine, no chunk of the buffer
\* is in a copy that was handed to the engine before.
HandedAtMostOnce ==
  [][\A c \in Calls : CopyTaken(c) => handed = 0]_vars

\* C30: the buffer lock is never held across an engine call.  While any
\* transcription is waiting on the engine nobody holds the lock, so
\* append_audio and get_buffer_duration are not kept waiting by it.
LockFreeDuringEngineCall ==
  \A c \in Calls : pc[c] = "asr" => buffer_lock = NoHolder

\* C30 witness: while a transcription waits on the engine, append_audio has
\* completed: the buffer holds a chunk behind the ones that were copied
LockFreeWitness ==
  \E c \in Calls :
    /\ pc[c] = "asr" /\ audio_to_transcribe[c] # <<>>
    /\ handed = Len(audio_to_transcribe[c])
    /\ Len(audio_buffer) > handed
    /\ buffer_lock = NoHolder

\* the step is a call to process_conversation_turn (and through it
\* process_audio_chunk), generate_response or synthesize_speech by c
CallEnters(c) ==
  pc[c] = "idle" /\ pc'[c] # "idle"

\* C31: engine unavailability is fatal to startup and not retried.  An
\* initialize call in which an engine fails leaves _initialized false, tries
\* no engine twice and none behind the failing one; _initialized becomes
\* true only by an initialize call in which every engine came up; and while
\* _initialized is false every call raises at once, with no engine called
\* and the history as it was.
StartupIsFatal ==
  /\ [](\A e \in Engines : init_attempts[e] <= 1)
  /\ [][\A e \in Engines, c \in Calls :
         /\ InitializeFails(e)
              => /\ ~initialized'
                 /\ \A f \in Engines :
                      (OrderOf(f) > OrderOf(e)) => (init_attempts'[f] = 0)
         /\ (~initialized /\ initialized') => (init_attempts'[e] = 1)
         /\ (~initialized /\ CallEnters(c))
              => /\ pc'[c] = "done" /\ outcome'[c] = "raised"
                 /\ called'[c] = {}
                 /\ history' = history]_vars

\* C31 witness: the generation backend failed its health check during
\* initialize (the synthesis model was never tried), and a generate_response
\* and a synthesize_speech call made afterwards have both raised
StartupWitness ==
  /\ ~initialized
  /\ init_attempts = [e \in Engines |-> IF e = "xtts" THEN 0 ELSE 1]
  /\ \E c, d \in Calls :
       /\ kind[c] = "generate" /\ outcome[c] = "raised"
       /\ kind[d] = "synth" /\ outcome[d] = "raised"
  /\ history = <<>>

\* C32: the system prompt is applied on the first turn and stays in effect.
\* The persona text is put into a generation input by chat exactly when the
\* turn's user entry is the only history entry, and every generation input
\* of the session is under the persona declaration: the request handed to
\* the generation backend carries it.
PersonaStaysInEffect ==
  \A c \in Calls :
    pc[c] = "gen"
      => /\ prompt[c].system <=> (prompt[c].parts = 1)
         /\ prompt[c].system

\* C33: history entries of different turns never interleave.  When a turn's
\* assistant entry is appended, the entry before it is that turn's own user
\* entry (or the history was cleared in between): no other turn has
\* appended an entry after this turn's user entry.
TurnsNeverInterleave ==
  [][\A c \in Calls :
       GenerationEnds(c)
         => \/ history = <<>>
            \/ history[Len(history)] = [role |-> "user", content |-> user_text[c]]]_vars

\* the history alternates user, assistant, user, assistant from its start
Alternates(h) ==
  \A i \in DOMAIN h : h[i].role = (IF i % 2 = 1 THEN "user" ELSE "assistant")

\* C34: the history invariant of a session whose turns run one at a time and
\* whose generation never fails.  In every state with no generation in
\* flight the history has even length, alternates user and assistant
\* starting with user, and is twice as long as the number of turns that
\* reached the generation since the last reset.
HistoryInvariant ==
  (\A c \in Calls : pc[c] # "gen")
    => /\ Len(history) % 2 = 0
       /\ Alternates(history)
       /\ Len(history) = 2 * gen_turns

\* C35: a generation failure inside a turn becomes speech.  When the stream
\* of a turn raises, the turn does not raise: its response is the fragments
\* received so far followed by the apology (trimmed), the turn goes on to
\* synthesize that text, and the history is left as it is, with the turn's
\* user entry and no assistant entry appended.
FailureBecomesSpeech ==
  [][\A c \in Calls :
       (GenerationFails(c) /\ kind[c] = "turn")
         => /\ response_text'[c] = Trimmed(Flatten(frags[c]) \o Apology)
            /\ pc'[c] = "tts"
            /\ "synthesis" \in called'[c]
            /\ outcome'[c] = outcome[c]
            /\ history' = history]_vars

\* C35 witness: the stream of a turn yielded "a" and then raised; the text
\* being synthesized is "a" followed by the apology and the history holds
\* the turn's user entry alone
FailureBecomesSpeechWitness ==
  \E c \in Calls :
    /\ kind[c] = "turn" /\ pc[c] = "tts"
    /\ response_text[c] = <<"a">> \o Apology
    /\ history = <<[role |-> "user", content |-> user_text[c]]>>

\* C36: a transcription engine failure is a silent no-op.  When the engine
\* call of a turn raises, the turn ends returning None with nothing raised,
\* only the transcription engine was called, the buffer, the silence timer
\* and the speech flag are cleared, transcription_count and the history are
\* as they were, and the single-flight flag is released.
TranscriptionFailureIsSilent ==
  [][\A c \in Calls :
       TranscriptionCounted(c, TextOf(c), FALSE)
         => /\ pc'[c] = "done" /\ outcome'[c] = "no_text"
            /\ called'[c] = {"transcription"}
            /\ audio_buffer' = <<>> /\ silence_start' = NoTime /\ ~is_speech_active'
            /\ transcription_count' = transcription_count
            /\ history' = history
            /\ ~processing']_vars

\* C36 witness: after one transcription that succeeded and whose turn left
\* its two entries, the engine call of a later turn raised: the turn ended
\* with None, the count is still one and the history still those two entries
TranscriptionFailureWitness ==
  \E c \in Calls :
    /\ kind[c] = "turn" /\ pc[c] = "done" /\ outcome[c] = "no_text"
    /\ called[c] = {"transcription"}
    /\ transcription_count = 1
    /\ Len(history) = 2 /\ history[1].role = "user" /\ history[2].role = "assistant"
    /\ audio_buffer = <<>> /\ ~processing

\* C37: the voice-activity state is only updated once the buffer has reached
\* min_speech_duration.  A chunk processed while the buffered duration is
\* below min_speech_duration leaves the speech flag and the silence timer as
\* they were; the flag is set only by a voiced chunk processed on a buffer
\* of at least min_speech_duration; and process_audio returns true on a
\* buffer that is not full only when the flag was set, so audio whose voiced
\* chunks all fall inside the initial window never triggers by silence.
VadWaitsForMinSpeech ==
  [][/\ (AudioProcessed /\ BufferDuration(audio_buffer') < config.min_speech_duration)
          => UNCHANGED <<is_speech_active, silence_start>>
     /\ (~is_speech_active /\ is_speech_active')
          => /\ BufferDuration(audio_buffer') >= config.min_speech_duration
             /\ \E chunk \in SegChunks :
                  ProcessAudio(chunk) /\ DetectVoiceActivity(config, chunk)
     /\ (AudioProcessed /\ last_trigger'
           /\ BufferDuration(audio_buffer') < config.chunk_length)
          => is_speech_active]_vars

\* C37 witness: with voice-activity detection switched off every chunk counts
\* as voiced; one of 0.2 s was processed on the empty buffer of a started
\* engine, inside the initial window, and the speech flag is not set
VadWaitsWitness ==
  /\ running /\ ~config.vad_enabled
  /\ audio_buffer = <<2>>
  /\ BufferDuration(audio_buffer) < config.min_speech_duration
  /\ ~is_speech_active /\ silence_start = NoTime /\ ~last_trigger

\* the user_text of the latest _handle_text_input call of the connection
LastOwnText ==
  LET own == {i \in 1..Len(srv_asked) : srv_asked[i].conn = OwnConnection}
  IN  srv_asked[CHOOSE i \in own : \A k \in own : k <= i].text

\* C38: server text turns carry no conversation state.  The step that takes
\* a text input posts a payload whose prompt is that message's text and
\* whose system entry is the configured system prompt, whatever was asked
\* before on this or on another connection; the payload stays that one as
\* long as the generation runs, and no payload outlives its turn.
TextTurnsCarryNoState ==
  /\ [](IF srv_pc = "gen"
        THEN srv_prompt = [prompt |-> LastOwnText, system |-> SystemPrompt]
        ELSE srv_prompt = NoPayload)
  /\ [][\A content \in UserTexts :
          Handles(UserTextMessage(content))
            => /\ srv_pc' = "gen"
               /\ srv_prompt' = [prompt |-> content, system |-> SystemPrompt]]_vars

\* C38 witness: the second text of a connection is being answered, it
\* differs from the first, and the payload holds the second text alone
TextTurnsWitness ==
  /\ srv_pc = "gen"
  /\ Len(srv_asked) = 2
  /\ srv_asked[1].conn = OwnConnection
  /\ srv_asked[2].conn = OwnConnection
  /\ srv_asked[1].text # srv_asked[2].text
  /\ srv_prompt.prompt = srv_asked[2].text

\* C39: client half-duplex gating.  Whenever the playback queue is not
\* empty _is_speaking is true; a block of microphone audio is handed to the
\* encoder only in a state where _is_recording is true and _is_speaking is
\* false; and _is_speaking goes back to false only in a round of the decoder
\* loop that decoded no sample and found the playback queue empty.
HalfDuplexGating ==
  /\ [](output_queue # <<>> => is_speaking)
  /\ [][(\E bytes \in EncodedChunks : AppendPcm(bytes))
          => (is_recording /\ ~is_speaking)]_vars
  /\ [][(is_speaking /\ ~is_speaking')
          => (DecoderLoop(0) /\ output_queue = <<>>)]_vars

====
